---- MODULE Spec2Model ----
(***************************************************************************)
(* Offline render/encode pipeline of spectrum-studio:                      *)
(* RenderService.renderPlaylist, its frame clock (processFrame driven by   *)
(* OfflineAudioContext.suspend/resume), the WebCodecs encoders, the muxer  *)
(* and cancel(), as written in src/unnamed/part_000 lines 337-872.         *)
(*                                                                         *)
(* Time is counted in audio sample frames at 44100 Hz, so that a duration  *)
(* D stands for D/44100 seconds and one video frame is 1470 samples.       *)
(* One action is one run of JavaScript between two macrotask boundaries:   *)
(* code separated only by microtask awaits runs in one action.             *)
(***************************************************************************)
EXTENDS Integers, Sequences, FiniteSets, TLC

\* ---------------------------------------------------------------- constants
sampleRate == 44100
fps == 30
BATCH_SIZE == 4
VideoQueueLimit == 60
AudioQueueLimit == 20
ProgressEvery == 30
KeyFrameEvery == 60
MaxTotalSeconds == 3600

\* ------------------------------------------------------------------- bounds
MaxTracks == 2

\* Durations (in samples) a track's file may decode to: an empty buffer, two
\* tracks of three video frames (2942 samples end inside the render quantum
\* of the last frame boundary, 4410 samples do not), a track just over the
\* ceiling of an hour, and a track of 32 video frames, two of which fill the
\* video encoder's queue beyond its limit.
ShortDurations == {0, 2942, 4410, MaxTotalSeconds * sampleRate + 1}
LongDurations == {46000}
TrackDurations == ShortDurations \cup LongDurations

\* decodedBuffers[k] of a track that was not decoded (null); as a track, a
\* file that cannot be fetched or decoded
NoBuffer == 0 - 1

\* An overlay image of the settings: not set, loadable, or failing to load;
\* a loadable sticker is an animated image or a static one.
ImageKinds == {"none", "ok", "bad"}
StickerKinds == {"none", "gif", "static", "bad"}
NoOverlays == [backgroundImage |-> "none", logoImage |-> "none", stickerImage |-> "none"]

RECURSIVE SeqsUpTo(_, _)
SeqsUpTo(S, n) ==
    IF n = 0 THEN {<<>>}
    ELSE LET shorter == SeqsUpTo(S, n - 1)
         IN  shorter \cup {Append(q, x) : q \in shorter, x \in S}

\* The calls of renderPlaylist that are explored: every track list of up to
\* MaxTracks tracks; every combination of overlays and both output modes for
\* the lists of short tracks, and the lists with a long track in buffer mode
\* without overlays.
Jobs ==
    {j \in [tracks : SeqsUpTo(TrackDurations \cup {NoBuffer}, MaxTracks),
            writableStream : BOOLEAN,
            settings : [backgroundImage : ImageKinds, logoImage : ImageKinds,
                        stickerImage : StickerKinds]] :
        (\E k \in 1..Len(j.tracks) : j.tracks[k] \in LongDurations)
            => (~j.writableStream /\ j.settings = NoOverlays)}

VARIABLES
    pc,              \* where renderPlaylist's main line is
    outcome,         \* how the returned promise settled
    tracks,          \* the track list passed in: what each file decodes to
    writableStream,  \* TRUE: direct-write mode
    settings,        \* the overlay images of visualizerSettings
    decodedBuffers,  \* per track: duration in samples, or NoBuffer (null)
    settled,         \* tracks of the current batch whose promise has settled
    batchStart,      \* loop variable i of the batch loop
    processedCount,
    validBuffers,    \* durations of the decoded tracks, in list order
    totalDuration,   \* in samples; also frameCount of the OfflineAudioContext
    totalFrames,
    mixStarts,       \* start offsets of the sources feeding the destination
    tapStarts,       \* start offsets of the sources feeding the analyser
    aborted,         \* abortController.signal.aborted
    hasEncoderError,
    ctx,             \* OfflineAudioContext: none, created, running, suspended, closed
    suspends,        \* frame indices with an accepted, not yet reached suspend()
    procs,           \* processFrame invocations waiting in an await
    skipped,         \* frame indices whose processFrame returned at its first line
    composited,      \* frame indices drawn onto the canvas, in order
    vState,          \* VideoEncoder.state (none before construction)
    vQueue,          \* VideoEncoder.encodeQueueSize
    submitted,       \* frames accepted by videoEncoder.encode, in order
    aState,
    aQueue,
    audioPos,        \* loop variable i of the audio chunk loop
    audioSubmitted,  \* chunks accepted by audioEncoder.encode, in order
    muxer,           \* none, open, finalized
    muxVideo,        \* video chunks appended to the muxer
    muxAudio,
    bitmaps,         \* open ImageBitmaps
    gif,             \* GifController: none, empty, loaded, disposed
    progress,        \* onProgress calls: <<current, total>>
    finLog,          \* finalization steps that took effect, in order
    cancelInfo,      \* what the frame clock had done when cancel() set the flag
    errInfo,         \* the same for the first encoder error callback
    isExporting,     \* useExporter state: the button shows "cancel"
    showExportModal, \* useExporter state: the export dialog is open
    renders,         \* renderPlaylist invocations made by startPlaylistExport
    alerts,          \* alert() calls of startPlaylistExport, per invocation
    effectLog,       \* calls made to the effect engine, in order
    visualizerMode,  \* the spectrum mode of the frame being analysed
    effects,         \* the whole-frame effects switched on: shake, pulse, glitch
    isPlaying,       \* live preview: playback is running
    analysis,        \* what the analysis of the current frame read and computed
    canvasOps,       \* drawing steps applied to the canvas for the current frame
    configureCalls,  \* codec strings passed to videoEncoder.configure, in order
    selectedTrackIds, \* useLibrary: ids of the selected tracks
    pending,         \* useLibrary: promises in flight (analysis, storage)
    created,         \* useLibrary: ids handed out by crypto.randomUUID()
    orphaned         \* useLibrary: ids whose analysis result found no track

vars == <<pc, outcome, tracks, writableStream, settings, decodedBuffers, settled, batchStart,
          processedCount, validBuffers, totalDuration, totalFrames, mixStarts,
          tapStarts, aborted, hasEncoderError, ctx, suspends, procs, skipped,
          composited, vState, vQueue, submitted, aState, aQueue, audioPos,
          audioSubmitted, muxer, muxVideo, muxAudio, bitmaps, gif, progress,
          finLog, cancelInfo, errInfo, isExporting, showExportModal, renders,
          alerts, effectLog, visualizerMode, effects, isPlaying, analysis,
          canvasOps, configureCalls, selectedTrackIds, pending,
          created, orphaned>>

inputVars == <<tracks, writableStream, settings>>
decodeVars == <<decodedBuffers, settled, batchStart, processedCount>>
timelineVars == <<validBuffers, totalDuration, totalFrames, mixStarts, tapStarts>>
clockVars == <<ctx, suspends, procs, skipped, composited, effectLog>>
videoVars == <<vState, vQueue, submitted, muxVideo>>
audioVars == <<aState, aQueue, audioPos, audioSubmitted, muxAudio>>
assetVars == <<bitmaps, gif>>
ghostVars == <<cancelInfo, errInfo>>
uiVars == <<isExporting, showExportModal, renders, alerts>>
drawVars == <<visualizerMode, effects, isPlaying, analysis, canvasOps>>
libraryVars == <<selectedTrackIds, pending, created, orphaned>>

\* ------------------------------------------------------------ pure helpers
Min(a, b) == IF a < b THEN a ELSE b

RECURSIVE SumSeq(_)
SumSeq(s) == IF s = <<>> THEN 0 ELSE Head(s) + SumSeq(Tail(s))

\* decodedBuffers.filter(b => b !== null), in index order
RECURSIVE FilterValid(_, _)
FilterValid(bufs, k) ==
    IF k > Len(bufs) THEN <<>>
    ELSE IF bufs[k] = NoBuffer THEN FilterValid(bufs, k + 1)
    ELSE <<bufs[k]>> \o FilterValid(bufs, k + 1)

StartTogether(bufs, offset) == [k \in 1..Len(bufs) |-> offset]

\* let offset = 0; forEach(buf => { source.start(offset); offset += buf.duration })
RECURSIVE StartOffsets(_, _)
StartOffsets(bufs, offset) ==
    IF bufs = <<>> THEN <<>>
    ELSE <<offset>> \o StartOffsets(Tail(bufs), offset + Head(bufs))

\* Math.ceil(totalDuration * fps), totalDuration = d / sampleRate seconds
TotalFramesOf(d) == (d * fps + sampleRate - 1) \div sampleRate

chunkFramesWholeSecond == sampleRate

\* Math.floor(sampleRate * CHUNK_DURATION_SEC), CHUNK_DURATION_SEC = 0.5
chunkFrames == sampleRate \div 2

\* An AudioBuffer's duration in samples exceeds the ceiling of 3600 seconds
TooLongExclusive(d) == d >= MaxTotalSeconds * sampleRate
TooLong(d) == d > MaxTotalSeconds * sampleRate

\* i * (1_000_000 / fps) as the integer microsecond timestamp a VideoFrame holds
FrameTimestamp(i) == (i * 1000000) \div fps

\* nothing analysed yet
NoAnalysis == [domain |-> "none", data |-> "none", energy |-> <<0, 1>>, isBeat |-> FALSE]

EffectDrawThenUpdate(i) ==
    <<[call |-> "draw", frame |-> i],
      [call |-> "update", frame |-> i, dt |-> <<1, fps>>]>>

\* The calls processFrame(i) makes to the effect engine: update with the
\* fixed timestep 1.0 / fps (lines 647-648, kept as the fraction <<1, fps>>),
\* then draw (line 724)
EffectCalls(i) ==
    <<[call |-> "update", frame |-> i, dt |-> <<1, fps>>],
      [call |-> "draw", frame |-> i]>>

KeyFrameOnFirstOnly(i) == i = 0

\* keyFrame: i % 60 === 0 (lines 746-748)
IsKeyFrame(i) == i % KeyFrameEvery = 0

\* new VideoFrame(canvas, {timestamp}) and the options passed to encode()
\* The overlays processFrame draws on the canvas (lines 666-722): each one
\* behind an if on its bitmap, the sticker on the gif frame or the bitmap
DrawnOverlays(bm, g) == bm \cup (IF g = "loaded" THEN {"sticker"} ELSE {})

VideoFrameOf(i) ==
    [index |-> i, timestamp |-> FrameTimestamp(i), keyFrame |-> IsKeyFrame(i),
     overlays |-> DrawnOverlays(bitmaps, gif)]

\* (i / sampleRate) * 1_000_000 as the integer microsecond timestamp an
\* AudioData holds; 1000000 / 44100 is written 10000 / 441
AudioTimestamp(i) == (i * 10000) \div ((sampleRate * 10000) \div 1000000)

SkipFrameIndex(i) == i + 2

\* the frame processFrame(i) chains after itself
NextFrameIndex(i) == i + 1

\* OfflineAudioContext.suspend(i / fps): the time is rounded up to a render
\* quantum of 128 sample frames, and the promise is rejected, or never
\* resolved before rendering ends, unless that frame lies before the end of
\* the rendered buffer.
SuspendFrame(i) == (((i * sampleRate) \div fps + 127) \div 128) * 128
SuspendAccepted(i, frameCount) == SuspendFrame(i) < frameCount

\* waitForQueue resolves once encodeQueueSize < limit / 2
LowWater(limit) == limit \div 2

AcceptAnyList(t) == FALSE

\* if (tracks.length === 0) throw (line 373)
NoTracks(t) == Len(t) = 0

OnlyEmptyList(bufs, d) == Len(bufs) = 0

\* if (validBuffers.length === 0 || totalDuration === 0) throw (line 423)
NoValidAudio(bufs, d) == Len(bufs) = 0 \/ d = 0

StopOnErrorOnly(isAborted, encoderError) == encoderError

StopOnCancelOnly(isAborted, encoderError) == isAborted

\* if (signal.aborted || this.hasEncoderError) return (line 607)
ShouldStop(isAborted, encoderError) == isAborted \/ encoderError

FinalizeThenClose(log) == log \o <<"finalize", "aclose">>

FinalizeAgain(log) == log \o <<"aclose", "finalize", "finalize">>

\* audioEncoder.close() of line 834, then muxer.finalize() of line 837
CloseThenFinalize(log) == log \o <<"aclose", "finalize">>

Batch == {k \in 1..Len(tracks) : batchStart < k /\ k <= batchStart + BATCH_SIZE}

Settled == pc \in {"resolved", "rejected"}

\* ------------------------------------------------------------------- Init
Init ==
    /\ pc = "idle"
    /\ outcome = "none"
    /\ tracks = <<>>
    /\ writableStream = FALSE
    /\ settings = NoOverlays
    /\ decodedBuffers = <<>>
    /\ settled = {}
    /\ batchStart = 0
    /\ processedCount = 0
    /\ validBuffers = <<>>
    /\ totalDuration = 0
    /\ totalFrames = 0
    /\ mixStarts = <<>>
    /\ tapStarts = <<>>
    /\ aborted = FALSE
    /\ hasEncoderError = FALSE
    /\ ctx = "none"
    /\ suspends = {}
    /\ procs = {}
    /\ skipped = {}
    /\ composited = <<>>
    /\ vState = "none"
    /\ vQueue = 0
    /\ submitted = <<>>
    /\ aState = "none"
    /\ aQueue = 0
    /\ audioPos = 0
    /\ audioSubmitted = <<>>
    /\ muxer = "none"
    /\ muxVideo = 0
    /\ muxAudio = 0
    /\ bitmaps = {}
    /\ gif = "none"
    /\ progress = <<>>
    /\ finLog = <<>>
    /\ cancelInfo = <<>>
    /\ errInfo = <<>>
    /\ isExporting = FALSE
    /\ showExportModal = FALSE
    /\ renders = <<>>
    /\ alerts = <<>>
    /\ effectLog = <<>>
    /\ visualizerMode = "BARS"
    /\ effects = {}
    /\ isPlaying = FALSE
    /\ analysis = NoAnalysis
    /\ canvasOps = <<>>
    /\ configureCalls = <<>>
    /\ selectedTrackIds = {} /\ pending = {} /\ created = 0 /\ orphaned = {}

\* ------------------------------------------------- renderPlaylist: decode
\* renderPlaylist(tracks, ..., writableStream) up to the first await.  The
\* environment decides whether the Muxer library is loaded (line 369).
RenderPlaylist ==
    /\ pc = "idle"
    /\ \E job \in Jobs, muxerLoaded \in BOOLEAN :
        /\ tracks' = job.tracks
        /\ writableStream' = job.writableStream
        /\ settings' = job.settings
        /\ aborted' = FALSE
        /\ hasEncoderError' = FALSE
        /\ IF ~muxerLoaded
           THEN /\ pc' = "rejected"
                /\ outcome' = "Muxer not loaded"
                /\ UNCHANGED <<decodedBuffers, progress>>
           ELSE IF NoTracks(job.tracks)
           THEN /\ pc' = "rejected"
                /\ outcome' = "No tracks to render"
                /\ UNCHANGED <<decodedBuffers, progress>>
           ELSE /\ pc' = "decoding"
                /\ outcome' = outcome
                /\ decodedBuffers' = [k \in 1..Len(job.tracks) |-> NoBuffer]
                /\ progress' = Append(progress, <<0, Len(job.tracks)>>)
        /\ UNCHANGED <<settled, batchStart, processedCount, timelineVars,
                       clockVars, videoVars, audioVars, muxer, assetVars,
                       finLog, ghostVars, uiVars, drawVars, configureCalls, libraryVars>>

StoreInCompletionOrder(bufs, k, buf) ==
    LET free == {j \in 1..Len(bufs) : bufs[j] = NoBuffer}
    IN  IF free = {} \/ buf = NoBuffer THEN bufs
        ELSE [bufs EXCEPT ![CHOOSE j \in free : \A h \in free : j <= h] = buf]

\* decodedBuffers[globalIndex] = buffer (line 404)
StoreDecoded(bufs, k, buf) == [bufs EXCEPT ![k] = buf]

\* one element of batchPromises: resolve the file, decode it, store the buffer
DecodeTrack ==
    \E k \in Batch \ settled :
        /\ pc = "decoding"
        /\ decodedBuffers' = StoreDecoded(decodedBuffers, k, tracks[k])
        /\ settled' = settled \cup {k}
        /\ UNCHANGED <<pc, outcome, inputVars, uiVars, drawVars, configureCalls, libraryVars, batchStart, processedCount,
                       timelineVars, aborted, hasEncoderError, clockVars,
                       videoVars, audioVars, muxer, assetVars, progress,
                       finLog, ghostVars>>

\* await Promise.all(batchPromises) resumes; the loop steps to the next batch
BatchDone ==
    /\ pc = "decoding"
    /\ Batch \subseteq settled
    /\ processedCount' = processedCount + Cardinality(Batch)
    /\ progress' = Append(progress, <<Min(processedCount', Len(tracks)), Len(tracks)>>)
    /\ batchStart' = batchStart + BATCH_SIZE
    /\ IF batchStart' < Len(tracks)
       THEN IF aborted
            THEN pc' = "rejected" /\ outcome' = "Render Aborted"
            ELSE pc' = "decoding" /\ outcome' = outcome
       ELSE pc' = "decoded" /\ outcome' = outcome
    /\ UNCHANGED <<inputVars, uiVars, drawVars, configureCalls, libraryVars, decodedBuffers, settled, timelineVars, aborted,
                   hasEncoderError, clockVars, videoVars, audioVars, muxer,
                   assetVars, finLog, ghostVars>>

\* --------------------------------------------------- renderPlaylist: setup
\* Lines 419-542: filter the decoded buffers, the pre-flight checks, the
\* OfflineAudioContext, the muxer, both encoders, the analyser tap.  The
\* environment decides whether the context can be allocated and whether each
\* configure() call throws.
\* The render on the fallback profile is followed for the timelines of under
\* a second in buffer mode without overlays; nothing after configure reads
\* the profile.
FallbackFollowed(total) ==
    total < sampleRate /\ settings = NoOverlays /\ ~writableStream

PrimaryCodec == "avc1.4d002a"
FallbackCodec == "avc1.42002a"

ConfigureFallbackTwice(primaryOk) ==
    IF primaryOk THEN <<PrimaryCodec>> ELSE <<PrimaryCodec, FallbackCodec, FallbackCodec>>

\* Lines 482-493: configure with the Main profile, and in the catch, once,
\* with the Baseline profile
ConfigureAttempts(primaryOk) ==
    IF primaryOk THEN <<PrimaryCodec>> ELSE <<PrimaryCodec, FallbackCodec>>

SetupPipeline ==
    \E ctxOk, primaryOk, fallbackOk, audioOk \in BOOLEAN :
        LET valid == FilterValid(decodedBuffers, 1)
            total == SumSeq(valid)
            preflight ==
                IF NoValidAudio(valid, total) THEN "No valid audio data"
                ELSE IF TooLong(total) THEN "Total duration too long"
                ELSE IF ~ctxOk THEN "Out of memory"
                ELSE "ok"
            videoOk == primaryOk \/ fallbackOk
        IN  /\ pc = "decoded"
            /\ (~primaryOk /\ fallbackOk) => FallbackFollowed(total)
            /\ validBuffers' = valid
            /\ totalDuration' = total
            /\ IF preflight # "ok"
               THEN /\ pc' = "rejected"
                    /\ outcome' = preflight
                    /\ UNCHANGED <<ctx, mixStarts, tapStarts, muxer, vState, aState,
                                   configureCalls, libraryVars>>
               ELSE /\ ctx' = "created"
                    /\ mixStarts' = StartOffsets(valid, 0)
                    /\ muxer' = "open"
                    /\ configureCalls' = ConfigureAttempts(primaryOk)
                    /\ vState' = IF videoOk THEN "configured" ELSE "unconfigured"
                    /\ aState' = IF ~videoOk THEN "none"
                                 ELSE IF audioOk THEN "configured" ELSE "unconfigured"
                    /\ tapStarts' = IF videoOk /\ audioOk
                                    THEN StartOffsets(valid, 0) ELSE tapStarts
                    /\ pc' = IF videoOk /\ audioOk THEN "loadAssets" ELSE "rejected"
                    /\ outcome' = IF ~videoOk THEN "Video configure failed"
                                  ELSE IF ~audioOk THEN "Audio configure failed"
                                  ELSE outcome
            /\ UNCHANGED <<inputVars, uiVars, drawVars, libraryVars, decodeVars, totalFrames, aborted,
                           hasEncoderError, suspends, procs, skipped, composited, effectLog,
                           vQueue, submitted, muxVideo, aQueue, audioPos,
                           audioSubmitted, muxAudio, assetVars, progress, finLog,
                           ghostVars>>

\* loadImage (lines 545-555): a bitmap, or null for no url or a failed load
LoadImageUnchecked(kind, name) == IF kind = "none" THEN {} ELSE {name}
LoadImage(kind, name) == IF kind = "ok" THEN {name} ELSE {}

\* Lines 557-573: the three asset loads and the sticker's decoding: an
\* animated sticker is held by the GifController, a static one becomes a
\* bitmap, a failing one is dropped.
LoadAssets ==
        /\ pc = "loadAssets"
        /\ bitmaps' = LoadImage(settings.backgroundImage, "bg")
                      \cup LoadImage(settings.logoImage, "logo")
                      \cup (IF settings.stickerImage = "static" THEN {"sticker"} ELSE {})
        /\ gif' = IF settings.stickerImage = "gif" THEN "loaded" ELSE "empty"
        /\ pc' = "ready"
        /\ UNCHANGED <<outcome, inputVars, uiVars, drawVars, configureCalls, libraryVars, decodeVars, timelineVars, aborted,
                       hasEncoderError, clockVars, videoVars, audioVars, muxer,
                       progress, finLog, ghostVars>>

\* Lines 576-774: totalFrames, the first progress report of the frame phase,
\* suspend(0).then(processFrame(0)) and startRendering()
StartRendering ==
    /\ pc = "ready"
    /\ totalFrames' = TotalFramesOf(totalDuration)
    /\ progress' = Append(progress, <<0, totalFrames'>>)
    /\ suspends' = IF SuspendAccepted(0, totalDuration) THEN {0} ELSE {}
    /\ ctx' = "running"
    /\ pc' = "awaitRendering"
    /\ UNCHANGED <<outcome, inputVars, uiVars, drawVars, configureCalls, libraryVars, decodeVars, validBuffers, totalDuration,
                   mixStarts, tapStarts, aborted, hasEncoderError, procs, skipped,
                   composited, effectLog, videoVars, audioVars, muxer, assetVars, finLog,
                   ghostVars>>

\* ------------------------------------------------------------ frame clock
\* Lines 626-764 of processFrame(i): read the analyser, draw, wrap the canvas
\* into a VideoFrame, encode (an encode() on a closed encoder throws and is
\* caught), chain processFrame(i + 1) to the next suspend, resume.
ComposeAndSubmit(i, susp) ==
    /\ composited' = Append(composited, i)
    /\ effectLog' = effectLog \o EffectCalls(i)
    /\ IF vState = "configured"
       THEN /\ submitted' = Append(submitted, VideoFrameOf(i))
            /\ vQueue' = vQueue + 1
       ELSE UNCHANGED <<submitted, vQueue>>
    /\ suspends' = IF /\ NextFrameIndex(i) < totalFrames
                      /\ SuspendAccepted(NextFrameIndex(i), totalDuration)
                   THEN susp \cup {NextFrameIndex(i)}
                   ELSE susp
    /\ ctx' = "running"

\* Lines 612-624 and what follows: every 30th frame reports progress and
\* yields to the event loop with setTimeout(0) before it is composited.
AfterQueue(i, ps, susp) ==
    IF i % ProgressEvery = 0
    THEN /\ progress' = Append(progress, <<i, totalFrames>>)
         /\ procs' = ps \cup {[frame |-> i, at |-> "yield"]}
         /\ suspends' = susp
         /\ ctx' = "suspended"
         /\ UNCHANGED <<composited, effectLog, submitted, vQueue>>
    ELSE /\ ComposeAndSubmit(i, susp)
         /\ procs' = ps
         /\ progress' = progress

\* The context reaches the earliest scheduled suspend: it stops there and the
\* chained processFrame(i) runs to its first macrotask await (lines 606-624).
FrameSuspend ==
    /\ ctx = "running"
    /\ suspends # {}
    /\ LET i == CHOOSE x \in suspends : \A y \in suspends : x <= y
           susp == suspends \ {i}
       IN  IF ShouldStop(aborted, hasEncoderError)
           THEN /\ skipped' = skipped \cup {i}
                /\ ctx' = "suspended"
                /\ suspends' = susp
                /\ UNCHANGED <<procs, progress, composited, effectLog, submitted, vQueue>>
           ELSE /\ skipped' = skipped
                /\ IF vQueue > VideoQueueLimit
                   THEN /\ procs' = procs \cup {[frame |-> i, at |-> "poll"]}
                        /\ ctx' = "suspended"
                        /\ suspends' = susp
                        /\ UNCHANGED <<progress, composited, effectLog, submitted, vQueue>>
                   ELSE AfterQueue(i, procs, susp)
    /\ UNCHANGED <<pc, outcome, inputVars, uiVars, drawVars, configureCalls, libraryVars, decodeVars, timelineVars, aborted,
                   hasEncoderError, vState, muxVideo, audioVars, muxer,
                   assetVars, finLog, ghostVars>>

\* setTimeout(r, 0) of line 623 fires: the frame is composited and submitted
FrameYield ==
    \E p \in procs :
        /\ p.at = "yield"
        /\ ComposeAndSubmit(p.frame, suspends)
        /\ procs' = procs \ {p}
        /\ UNCHANGED <<pc, outcome, inputVars, uiVars, drawVars, configureCalls, libraryVars, decodeVars, timelineVars, aborted,
                       hasEncoderError, skipped, vState, muxVideo, audioVars,
                       muxer, assetVars, progress, finLog, ghostVars>>

\* ------------------------------------------------------- audio chunk loop
\* Lines 800-826: one chunk of at most chunkFrames sample frames
EncodeAudioChunk ==
    LET n == Min(chunkFrames, totalDuration - audioPos)
        chunk == [start |-> audioPos, frames |-> n,
                  timestamp |-> AudioTimestamp(audioPos)]
    IN  /\ IF aState = "configured"
           THEN /\ audioSubmitted' = Append(audioSubmitted, chunk)
                /\ aQueue' = aQueue + 1
                /\ finLog' = IF audioSubmitted = <<>>
                             THEN Append(finLog, "achunk") ELSE finLog
           ELSE UNCHANGED <<audioSubmitted, aQueue, finLog>>
        /\ IF audioPos % (chunkFrames * 5) = 0
           THEN pc' = "audioYield" /\ audioPos' = audioPos
           ELSE pc' = "audioLoop" /\ audioPos' = audioPos + chunkFrames

\* Lines 795-800: one iteration of the loop up to its macrotask await
AudioChunk ==
    /\ pc = "audioLoop"
    /\ audioPos < totalDuration
    /\ ~hasEncoderError
    /\ IF aQueue > AudioQueueLimit
       THEN /\ pc' = "audioPoll"
            /\ UNCHANGED <<audioSubmitted, aQueue, finLog, audioPos>>
       ELSE EncodeAudioChunk
    /\ UNCHANGED <<outcome, inputVars, uiVars, drawVars, configureCalls, libraryVars, decodeVars, timelineVars, aborted,
                   hasEncoderError, clockVars, videoVars, aState, muxAudio,
                   muxer, assetVars, progress, ghostVars>>

\* setTimeout(r, 0) of line 825 fires; the loop's i += chunkFrames
AudioYield ==
    /\ pc = "audioYield"
    /\ audioPos' = audioPos + chunkFrames
    /\ pc' = "audioLoop"
    /\ UNCHANGED <<outcome, inputVars, uiVars, drawVars, configureCalls, libraryVars, decodeVars, timelineVars, aborted,
                   hasEncoderError, clockVars, videoVars, aState, aQueue,
                   audioSubmitted, muxAudio, muxer, assetVars, progress, finLog,
                   ghostVars>>

\* waitForQueue's setInterval callback (lines 345-350), for whichever wait is
\* in progress: the frame clock's on the video encoder (limit 60) or the
\* chunk loop's on the audio encoder (limit 20).
QueuePoll ==
    IF pc = "audioPoll"
    THEN /\ IF aQueue < LowWater(AudioQueueLimit)
            THEN EncodeAudioChunk
            ELSE UNCHANGED <<pc, audioPos, audioSubmitted, aQueue, finLog>>
         /\ UNCHANGED <<outcome, inputVars, uiVars, drawVars, configureCalls, libraryVars, decodeVars, timelineVars, aborted,
                        hasEncoderError, clockVars, videoVars, aState, muxAudio,
                        muxer, assetVars, progress, ghostVars>>
    ELSE \E p \in procs :
            /\ p.at = "poll"
            /\ IF vQueue < LowWater(VideoQueueLimit)
               THEN AfterQueue(p.frame, procs \ {p}, suspends)
               ELSE UNCHANGED <<procs, suspends, ctx, progress, composited, effectLog,
                                submitted, vQueue>>
            /\ UNCHANGED <<pc, outcome, inputVars, uiVars, drawVars, configureCalls, libraryVars, decodeVars, timelineVars,
                           aborted, hasEncoderError, skipped, vState, muxVideo,
                           audioVars, muxer, assetVars, finLog, ghostVars>>

\* ------------------------------------------------------------ finalization
\* The catch block of lines 861-866: close() whatever encoder is still open
\* (a close() on a closed encoder throws and is swallowed), then rethrow.
\* vs, as and log are the encoder states and the log when the error is thrown.
CatchAndRethrow(reason, vs, as, log) ==
    /\ pc' = "rejected"
    /\ outcome' = reason
    /\ vState' = IF vs = "configured" THEN "closed" ELSE vs
    /\ vQueue' = IF vs = "configured" THEN 0 ELSE vQueue
    /\ aState' = IF as = "configured" THEN "closed" ELSE as
    /\ aQueue' = IF as = "configured" THEN 0 ELSE aQueue
    /\ finLog' = log \o (IF vs = "configured" THEN <<"vclose">> ELSE <<>>)
                     \o (IF as = "configured" THEN <<"aclose">> ELSE <<>>)

\* The audio timeline has nothing left to stop at: rendering runs to its end,
\* startRendering() resolves, and lines 776-779 report progress and call
\* videoEncoder.flush() (which rejects at once on a closed encoder).
RenderingComplete ==
    /\ pc = "awaitRendering"
    /\ ctx = "running"
    /\ suspends = {}
    /\ ctx' = "closed"
    /\ progress' = Append(progress, <<totalFrames, totalFrames>>)
    /\ finLog' = IF vState = "configured" THEN Append(finLog, "vflush") ELSE finLog
    /\ pc' = "flushVideo"
    /\ UNCHANGED <<outcome, inputVars, uiVars, drawVars, configureCalls, libraryVars, decodeVars, timelineVars, aborted,
                   hasEncoderError, suspends, procs, skipped, composited, effectLog,
                   videoVars, audioVars, muxer, assetVars, ghostVars>>

\* Lines 779-793: the flush promise settles (resolved with the queue empty, or
\* rejected because the encoder is closed), videoEncoder.close(), progress.
VideoFlushSettled ==
    /\ pc = "flushVideo"
    /\ (vState = "configured" => vQueue = 0)
    /\ IF vState # "configured"
       THEN /\ CatchAndRethrow("InvalidStateError", vState, aState, finLog)
            /\ UNCHANGED <<progress, audioPos>>
       ELSE /\ vState' = "closed"
            /\ finLog' = Append(finLog, "vclose")
            /\ progress' = Append(progress, <<totalFrames, totalFrames>>)
            /\ audioPos' = 0
            /\ pc' = "audioLoop"
            /\ UNCHANGED <<outcome, vQueue, aState, aQueue>>
    /\ UNCHANGED <<inputVars, uiVars, drawVars, configureCalls, libraryVars, decodeVars, timelineVars, aborted, hasEncoderError,
                   clockVars, submitted, muxVideo, audioSubmitted, muxAudio,
                   muxer, assetVars, ghostVars>>

\* The chunk loop ends (all samples handed over, or the break of line 796)
\* and audioEncoder.flush() is called (line 830).
AudioLoopEnd ==
    /\ pc = "audioLoop"
    /\ (audioPos < totalDuration => hasEncoderError)
    /\ finLog' = IF aState = "configured" THEN Append(finLog, "aflush") ELSE finLog
    /\ pc' = "flushAudio"
    /\ UNCHANGED <<outcome, inputVars, uiVars, drawVars, configureCalls, libraryVars, decodeVars, timelineVars, aborted,
                   hasEncoderError, clockVars, videoVars, audioVars, muxer,
                   assetVars, progress, ghostVars>>

\* Lines 830-859: the audio flush settles, audioEncoder.close(),
\* muxer.finalize(), the bitmaps are closed, the result is built.  The
\* environment decides whether finalize() throws and whether the in-memory
\* target ends up empty.
AudioFlushSettled ==
    \E finalizeOk, emptyBuffer \in BOOLEAN :
        /\ pc = "flushAudio"
        /\ (aState = "configured" => aQueue = 0)
        /\ IF aState # "configured"
           THEN /\ CatchAndRethrow("InvalidStateError", vState, aState, finLog)
                /\ UNCHANGED <<muxer, bitmaps, gif>>
           ELSE IF ~finalizeOk
           THEN /\ CatchAndRethrow("Finalize failed", vState, "closed",
                                   Append(finLog, "aclose"))
                /\ UNCHANGED <<muxer, bitmaps, gif>>
           ELSE /\ aState' = "closed"
                /\ muxer' = "finalized"
                /\ finLog' = CloseThenFinalize(finLog)
                /\ bitmaps' = {}
                /\ gif' = "disposed"
                /\ pc' = IF writableStream \/ ~emptyBuffer
                         THEN "resolved" ELSE "rejected"
                /\ outcome' = IF writableStream THEN "null"
                              ELSE IF emptyBuffer THEN "Zero bytes" ELSE "url"
                /\ UNCHANGED <<vState, vQueue, aQueue>>
        /\ UNCHANGED <<inputVars, uiVars, drawVars, configureCalls, libraryVars, decodeVars, timelineVars, aborted,
                       hasEncoderError, clockVars, submitted, muxVideo, audioPos,
                       audioSubmitted, muxAudio, progress, ghostVars>>

\* ----------------------------------------------------- encoders and cancel
\* What the frame clock had done when a flag was set
ClockSnapshot ==
    <<[phase |-> IF pc = "awaitRendering" THEN "frames" ELSE "other",
       frames |-> Len(submitted), drawn |-> Len(composited),
       inflight |-> {p.frame : p \in procs}]>>

\* VideoEncoder output callback (line 475): muxer.addVideoChunk
VideoOutput ==
    /\ vState = "configured"
    /\ vQueue > 0
    /\ vQueue' = vQueue - 1
    /\ muxVideo' = muxVideo + 1
    /\ UNCHANGED <<pc, outcome, inputVars, uiVars, drawVars, configureCalls, libraryVars, decodeVars, timelineVars, aborted,
                   hasEncoderError, clockVars, vState, submitted, audioVars,
                   muxer, assetVars, progress, finLog, ghostVars>>

\* VideoEncoder error callback (lines 476-479), for a configuration the
\* platform turns out not to support or for a frame it cannot encode; the
\* platform has closed the encoder and dropped its queue before it calls back
VideoError ==
    /\ vState = "configured"
    /\ (pc = "loadAssets" \/ vQueue > 0)
    /\ vState' = "closed"
    /\ vQueue' = 0
    /\ hasEncoderError' = TRUE
    /\ errInfo' = IF errInfo = <<>> THEN ClockSnapshot ELSE errInfo
    /\ UNCHANGED <<pc, outcome, inputVars, uiVars, drawVars, configureCalls, libraryVars, decodeVars, timelineVars, aborted,
                   clockVars, submitted, muxVideo, audioVars, muxer, assetVars,
                   progress, finLog, cancelInfo>>

\* AudioEncoder output callback (line 507): muxer.addAudioChunk
AudioOutput ==
    /\ aState = "configured"
    /\ aQueue > 0
    /\ aQueue' = aQueue - 1
    /\ muxAudio' = muxAudio + 1
    /\ UNCHANGED <<pc, outcome, inputVars, uiVars, drawVars, configureCalls, libraryVars, decodeVars, timelineVars, aborted,
                   hasEncoderError, clockVars, videoVars, aState, audioPos,
                   audioSubmitted, muxer, assetVars, progress, finLog, ghostVars>>

\* AudioEncoder error callback (lines 508-511)
AudioError ==
    /\ aState = "configured"
    /\ (pc = "loadAssets" \/ aQueue > 0)
    /\ aState' = "closed"
    /\ aQueue' = 0
    /\ hasEncoderError' = TRUE
    /\ errInfo' = IF errInfo = <<>> THEN ClockSnapshot ELSE errInfo
    /\ UNCHANGED <<pc, outcome, inputVars, uiVars, drawVars, configureCalls, libraryVars, decodeVars, timelineVars, aborted,
                   clockVars, videoVars, audioPos, audioSubmitted, muxAudio,
                   muxer, assetVars, progress, finLog, cancelInfo>>

\* cancel() (lines 869-871), called while a render is in progress
Cancel ==
    /\ pc # "idle"
    /\ ~Settled
    /\ ~aborted
    /\ aborted' = TRUE
    /\ cancelInfo' = ClockSnapshot
    /\ UNCHANGED <<pc, outcome, inputVars, uiVars, drawVars, configureCalls, libraryVars, decodeVars, timelineVars,
                   hasEncoderError, clockVars, videoVars, audioVars, muxer,
                   assetVars, progress, finLog, errInfo>>

\* ------------------------------------------------------------ specification
\* the steps of renderPlaylist and of the callbacks it registered
RenderStep ==
    \/ DecodeTrack
    \/ BatchDone
    \/ SetupPipeline
    \/ LoadAssets
    \/ StartRendering
    \/ FrameSuspend
    \/ FrameYield
    \/ QueuePoll
    \/ RenderingComplete
    \/ VideoFlushSettled
    \/ AudioChunk
    \/ AudioYield
    \/ AudioLoopEnd
    \/ AudioFlushSettled

Next ==
    \/ RenderPlaylist
    \/ RenderStep
    \/ VideoOutput
    \/ VideoError
    \/ AudioOutput
    \/ AudioError
    \/ Cancel

Spec == Init /\ [][Next]_vars

\* ------------------------------------------------------------------------
\* The frame clock of the revision of src/services/renderService.ts that
\* keeps LOOKAHEAD suspends scheduled and sleeps once on a full queue (lines
\* 694-853), from the point where the pipeline is set up to the point where
\* startRendering() resolves.  It shares the variables above; durations are
\* in samples at 48000 Hz.
lookaheadSampleRate == 48000
LOOKAHEAD == 30
SleepQueueLimit == 60
LookaheadProgressEvery == 120

\* timelines of 3, 63 and 122 video frames
LookaheadDurations == {4800, 100800, 195200}

\* Math.ceil(totalDuration * fps) of line 671
LookaheadTotalFrames(d) == (d * fps + lookaheadSampleRate - 1) \div lookaheadSampleRate

\* OfflineAudioContext.suspend(i / fps) at 48000 Hz
LookaheadSuspendFrame(i) == (((i * lookaheadSampleRate) \div fps + 127) \div 128) * 128
LookaheadSuspendAccepted(i, frameCount) == LookaheadSuspendFrame(i) < frameCount

\* update(isBeat, bassEnergy, effectParams) of line 732 passes no timestep;
\* draw is line 806
LookaheadEffectCalls(i) ==
    <<[call |-> "update", frame |-> i, dt |-> "default"],
      [call |-> "draw", frame |-> i]>>

lookaheadRest ==
    <<outcome, inputVars, uiVars, drawVars, configureCalls, libraryVars, decodeVars, validBuffers, totalDuration, mixStarts,
      tapStarts, aborted, vState, muxVideo, audioVars, muxer, assetVars,
      finLog, ghostVars>>

\* The state in which line 843 is reached: one decoded track, both encoders
\* configured, the muxer open, no overlay; progress holds the calls of
\* onProgress from here on.
LookaheadInit ==
    /\ pc = "ready"
    /\ outcome = "none"
    /\ totalDuration \in LookaheadDurations
    /\ tracks = <<totalDuration>>
    /\ writableStream \in (IF totalDuration = 4800 THEN BOOLEAN ELSE {FALSE})
    /\ settings = NoOverlays
    /\ decodedBuffers = tracks
    /\ settled = {1}
    /\ batchStart = 0
    /\ processedCount = 1
    /\ validBuffers = tracks
    /\ totalFrames = 0
    /\ mixStarts = <<0>>
    /\ tapStarts = <<0>>
    /\ aborted = FALSE
    /\ hasEncoderError = FALSE
    /\ ctx = "created"
    /\ suspends = {}
    /\ procs = {}
    /\ skipped = {}
    /\ composited = <<>>
    /\ vState = "configured"
    /\ vQueue = 0
    /\ submitted = <<>>
    /\ aState = "configured"
    /\ aQueue = 0
    /\ audioPos = 0
    /\ audioSubmitted = <<>>
    /\ muxer = "open"
    /\ muxVideo = 0
    /\ muxAudio = 0
    /\ bitmaps = {}
    /\ gif = "empty"
    /\ progress = <<>>
    /\ finLog = <<>>
    /\ cancelInfo = <<>>
    /\ errInfo = <<>>
    /\ isExporting = FALSE
    /\ showExportModal = FALSE
    /\ renders = <<>>
    /\ alerts = <<>>
    /\ effectLog = <<>>
    /\ visualizerMode = "BARS"
    /\ effects = {}
    /\ isPlaying = FALSE
    /\ analysis = NoAnalysis
    /\ canvasOps = <<>>
    /\ configureCalls = <<>>
    /\ selectedTrackIds = {} /\ pending = {} /\ created = 0 /\ orphaned = {}

\* Lines 843-853: the first progress report, the first min(totalFrames,
\* LOOKAHEAD) suspends, startRendering()
LookaheadStartRendering ==
    /\ pc = "ready"
    /\ totalFrames' = LookaheadTotalFrames(totalDuration)
    /\ progress' = Append(progress, <<0, totalFrames'>>)
    /\ suspends' = {i \in 0..(Min(totalFrames', LOOKAHEAD) - 1) :
                        LookaheadSuspendAccepted(i, totalDuration)}
    /\ ctx' = "running"
    /\ pc' = "awaitRendering"
    /\ UNCHANGED <<hasEncoderError, procs, skipped, composited, effectLog, submitted,
                   vQueue, lookaheadRest>>

\* Lines 706-841 of processFrame(i): analysis, drawing, encode (a throwing
\* encode() sets hasEncoderError, line 827), the suspend for frame
\* i + LOOKAHEAD, resume.
LookaheadComposeAndSubmit(i, susp) ==
    /\ composited' = Append(composited, i)
    /\ effectLog' = effectLog \o LookaheadEffectCalls(i)
    /\ IF vState = "configured"
       THEN /\ submitted' = Append(submitted, VideoFrameOf(i))
            /\ vQueue' = vQueue + 1
            /\ hasEncoderError' = hasEncoderError
       ELSE /\ hasEncoderError' = TRUE
            /\ UNCHANGED <<submitted, vQueue>>
    /\ suspends' = IF /\ i + LOOKAHEAD < totalFrames
                      /\ LookaheadSuspendAccepted(i + LOOKAHEAD, totalDuration)
                   THEN susp \cup {i + LOOKAHEAD}
                   ELSE susp
    /\ ctx' = "running"

\* Lines 702-713: every 120th frame reports progress and yields
LookaheadAfterSleep(i, ps, susp) ==
    IF i % LookaheadProgressEvery = 0
    THEN /\ progress' = Append(progress, <<i, totalFrames>>)
         /\ procs' = ps \cup {[frame |-> i, at |-> "yield"]}
         /\ suspends' = susp
         /\ ctx' = "suspended"
         /\ UNCHANGED <<composited, effectLog, submitted, vQueue, hasEncoderError>>
    ELSE /\ LookaheadComposeAndSubmit(i, susp)
         /\ procs' = ps
         /\ progress' = progress

\* The context stops at the earliest scheduled suspend and processFrame(i)
\* runs to its first macrotask await (lines 695-700)
LookaheadFrameSuspend ==
    /\ ctx = "running"
    /\ suspends # {}
    /\ LET i == CHOOSE x \in suspends : \A y \in suspends : x <= y
           susp == suspends \ {i}
       IN  IF ShouldStop(aborted, hasEncoderError)
           THEN /\ skipped' = skipped \cup {i}
                /\ ctx' = "suspended"
                /\ suspends' = susp
                /\ UNCHANGED <<procs, progress, composited, effectLog, submitted, vQueue,
                               hasEncoderError>>
           ELSE /\ skipped' = skipped
                /\ IF vQueue > SleepQueueLimit
                   THEN /\ procs' = procs \cup {[frame |-> i, at |-> "sleep"]}
                        /\ ctx' = "suspended"
                        /\ suspends' = susp
                        /\ UNCHANGED <<progress, composited, effectLog, submitted, vQueue,
                                       hasEncoderError>>
                   ELSE LookaheadAfterSleep(i, procs, susp)
    /\ UNCHANGED <<pc, totalFrames, lookaheadRest>>

\* setTimeout(r, 1) of line 699 fires: the frame goes on whatever the queue
LookaheadSleepDone ==
    \E p \in procs :
        /\ p.at = "sleep"
        /\ LookaheadAfterSleep(p.frame, procs \ {p}, suspends)
        /\ UNCHANGED <<pc, totalFrames, skipped, lookaheadRest>>

\* setTimeout(r, 0) of line 711 fires
LookaheadFrameYield ==
    \E p \in procs :
        /\ p.at = "yield"
        /\ LookaheadComposeAndSubmit(p.frame, suspends)
        /\ procs' = procs \ {p}
        /\ UNCHANGED <<pc, totalFrames, skipped, progress, lookaheadRest>>

\* startRendering() resolves; line 855 reports progress.  Without an encoder
\* error videoEncoder.flush() is awaited (line 858); with one the flush is
\* skipped and videoEncoder.close() (line 862) runs at once, which throws on
\* the encoder the platform closed when it reported the error.
LookaheadRenderingComplete ==
    /\ pc = "awaitRendering"
    /\ ctx = "running"
    /\ suspends = {}
    /\ ctx' = "closed"
    /\ progress' = Append(progress, <<totalFrames, totalFrames>>)
    /\ IF ~hasEncoderError
       THEN /\ pc' = "flushVideo"
            /\ finLog' = Append(finLog, "vflush")
            /\ outcome' = outcome
       ELSE /\ pc' = "rejected"
            /\ finLog' = finLog
            /\ outcome' = "InvalidStateError"
    /\ UNCHANGED <<inputVars, uiVars, drawVars, configureCalls, libraryVars, decodeVars, timelineVars, aborted, hasEncoderError,
                   suspends, procs, skipped, composited, effectLog, videoVars, audioVars,
                   muxer, assetVars, ghostVars>>

\* Lines 858-879: the video flush settles (rejected if the encoder failed
\* meanwhile; the catch of line 901 only rethrows), videoEncoder.close(),
\* progress, the whole rendered buffer goes to the audio encoder as one
\* AudioData and audioEncoder.flush() is awaited.
LookaheadVideoFlushSettled ==
    /\ pc = "flushVideo"
    /\ (vState = "configured" => vQueue = 0)
    /\ IF vState # "configured"
       THEN /\ pc' = "rejected"
            /\ outcome' = "InvalidStateError"
            /\ UNCHANGED <<vState, progress, finLog, audioSubmitted, aQueue>>
       ELSE /\ vState' = "closed"
            /\ progress' = Append(progress, <<totalFrames, totalFrames>>)
            /\ audioSubmitted' = Append(audioSubmitted, 0)
            /\ aQueue' = aQueue + 1
            /\ finLog' = finLog \o <<"vclose", "aflush">>
            /\ pc' = "flushAudio"
            /\ outcome' = outcome
    /\ UNCHANGED <<inputVars, uiVars, drawVars, configureCalls, libraryVars, decodeVars, timelineVars, aborted, hasEncoderError,
                   clockVars, vQueue, submitted, muxVideo, aState, audioPos,
                   muxAudio, muxer, assetVars, ghostVars>>

\* Lines 879-899: the audio flush settles, audioEncoder.close(),
\* muxer.finalize() (it may throw), the bitmaps are closed, and the result is
\* null for a writable stream and otherwise a url for the target's buffer,
\* whatever its length.
LookaheadAudioFlushSettled ==
    \E finalizeOk, emptyBuffer \in BOOLEAN :
        /\ pc = "flushAudio"
        /\ (aState = "configured" => aQueue = 0)
        /\ IF aState # "configured"
           THEN /\ pc' = "rejected"
                /\ outcome' = "InvalidStateError"
                /\ UNCHANGED <<aState, finLog, muxer, bitmaps, gif>>
           ELSE IF ~finalizeOk
           THEN /\ pc' = "rejected"
                /\ outcome' = "Finalize failed"
                /\ aState' = "closed"
                /\ finLog' = Append(finLog, "aclose")
                /\ UNCHANGED <<muxer, bitmaps, gif>>
           ELSE /\ aState' = "closed"
                /\ muxer' = "finalized"
                /\ finLog' = CloseThenFinalize(finLog)
                /\ bitmaps' = {}
                /\ gif' = "disposed"
                /\ pc' = "resolved"
                /\ outcome' = IF writableStream THEN "null"
                              ELSE IF emptyBuffer THEN "url of zero bytes"
                              ELSE "url"
        /\ UNCHANGED <<inputVars, uiVars, drawVars, configureCalls, libraryVars, decodeVars, timelineVars, aborted,
                       hasEncoderError, clockVars, videoVars, aQueue, audioPos,
                       audioSubmitted, muxAudio, progress, ghostVars>>

LookaheadNext ==
    \/ LookaheadStartRendering
    \/ LookaheadFrameSuspend
    \/ LookaheadSleepDone
    \/ LookaheadFrameYield
    \/ LookaheadRenderingComplete
    \/ LookaheadVideoFlushSettled
    \/ LookaheadAudioFlushSettled
    \/ VideoOutput
    \/ VideoError
    \/ AudioOutput
    \/ AudioError
    \/ Cancel

SpecLookahead == LookaheadInit /\ [][LookaheadNext]_vars

\* ------------------------------------------------------------------------
\* The decode phase of the revision in src/unnamed/part_002 (lines 55-106),
\* which decodes the tracks one after the other.  It shares the variables
\* above: batchStart is the loop variable i, decodedBuffers the list the
\* loop pushes to.
sequentialRest ==
    <<writableStream, settings, settled, processedCount, totalFrames, mixStarts,
      tapStarts, hasEncoderError, clockVars, videoVars, audioVars, muxer,
      assetVars, finLog, ghostVars, uiVars, drawVars, configureCalls, libraryVars>>

\* Lines 63-72: the entry, the empty-list check, the first progress report
SequentialRenderPlaylist ==
    /\ pc = "idle"
    /\ \E t \in SeqsUpTo(TrackDurations \cup {NoBuffer}, MaxTracks) :
        /\ tracks' = t
        /\ aborted' = FALSE
        /\ IF NoTracks(t)
           THEN /\ pc' = "rejected"
                /\ outcome' = "No tracks to render"
                /\ progress' = progress
           ELSE /\ pc' = "decoding"
                /\ outcome' = outcome
                /\ progress' = Append(progress, <<0, Len(t)>>)
    /\ UNCHANGED <<decodedBuffers, batchStart, validBuffers, totalDuration,
                   sequentialRest>>

\* Lines 75-103: one iteration of the loop.  A track without a decodable
\* file is missing from the store, decodes to null (both reach the throw of
\* line 101) or makes getAudioBuffer throw (line 93, not caught).
SequentialDecodeTrack ==
    /\ pc = "decoding"
    /\ batchStart < Len(tracks)
    /\ \E failure \in {"Track file not found", "Decode error"} :
        IF aborted
        THEN /\ pc' = "rejected"
             /\ outcome' = "Render Aborted"
             /\ UNCHANGED <<progress, decodedBuffers, totalDuration, batchStart>>
        ELSE /\ progress' = Append(progress, <<batchStart, Len(tracks)>>)
             /\ IF tracks[batchStart + 1] = NoBuffer
                THEN /\ pc' = "rejected"
                     /\ outcome' = failure
                     /\ UNCHANGED <<decodedBuffers, totalDuration, batchStart>>
                ELSE /\ decodedBuffers' = Append(decodedBuffers, tracks[batchStart + 1])
                     /\ totalDuration' = totalDuration + tracks[batchStart + 1]
                     /\ batchStart' = batchStart + 1
                     /\ UNCHANGED <<pc, outcome>>
    /\ UNCHANGED <<tracks, aborted, validBuffers, sequentialRest>>

\* Lines 105-106: the checks after the loop; the decoded list is the mix
SequentialDecoded ==
    /\ pc = "decoding"
    /\ batchStart = Len(tracks)
    /\ IF Len(decodedBuffers) = 0 \/ totalDuration = 0
       THEN /\ pc' = "rejected"
            /\ outcome' = "No valid audio data"
            /\ validBuffers' = validBuffers
       ELSE /\ pc' = "mixed"
            /\ outcome' = outcome
            /\ validBuffers' = decodedBuffers
    /\ UNCHANGED <<tracks, aborted, decodedBuffers, batchStart, totalDuration,
                   progress, sequentialRest>>

SequentialNext ==
    \/ SequentialRenderPlaylist
    \/ SequentialDecodeTrack
    \/ SequentialDecoded
    \/ Cancel

SpecSequential == Init /\ [][SequentialNext]_vars

\* ------------------------------------------------------------------------
\* The pre-flight checks of lines 419-442 on their own: the decode phase has
\* ended with every track settled, and the decoded lengths are drawn from
\* around the one-hour ceiling (in sample frames at 44100 Hz).
PreflightDurations ==
    {NoBuffer, 0, 1, (MaxTotalSeconds * sampleRate) \div 2,
     MaxTotalSeconds * sampleRate - 1, MaxTotalSeconds * sampleRate,
     MaxTotalSeconds * sampleRate + 1}

PreflightInit ==
    /\ pc = "decoded"
    /\ outcome = "none"
    /\ tracks \in SeqsUpTo(PreflightDurations, MaxTracks) \ {<<>>}
    /\ decodedBuffers = tracks
    /\ settled = 1..Len(tracks)
    /\ batchStart = BATCH_SIZE * ((Len(tracks) + BATCH_SIZE - 1) \div BATCH_SIZE)
    /\ processedCount = Len(tracks)
    /\ progress = <<<<0, Len(tracks)>>>> \o
                  [b \in 1..(batchStart \div BATCH_SIZE) |->
                      <<Min(b * BATCH_SIZE, Len(tracks)), Len(tracks)>>]
    /\ writableStream \in BOOLEAN
    /\ settings = NoOverlays
    /\ validBuffers = <<>> /\ totalDuration = 0 /\ totalFrames = 0
    /\ mixStarts = <<>> /\ tapStarts = <<>>
    /\ aborted = FALSE /\ hasEncoderError = FALSE
    /\ ctx = "none" /\ suspends = {} /\ procs = {} /\ skipped = {}
    /\ composited = <<>> /\ submitted = <<>> /\ audioSubmitted = <<>>
    /\ vState = "none" /\ vQueue = 0 /\ aState = "none" /\ aQueue = 0
    /\ audioPos = 0 /\ muxer = "none" /\ muxVideo = 0 /\ muxAudio = 0
    /\ bitmaps = {} /\ gif = "none"
    /\ finLog = <<>> /\ cancelInfo = <<>> /\ errInfo = <<>>
    /\ isExporting = FALSE
    /\ showExportModal = FALSE
    /\ renders = <<>>
    /\ alerts = <<>>
    /\ effectLog = <<>>
    /\ visualizerMode = "BARS"
    /\ effects = {}
    /\ isPlaying = FALSE
    /\ analysis = NoAnalysis
    /\ canvasOps = <<>>
    /\ configureCalls = <<>>
    /\ selectedTrackIds = {} /\ pending = {} /\ created = 0 /\ orphaned = {}

PreflightNext == SetupPipeline

SpecPreflight == PreflightInit /\ [][PreflightNext]_vars

\* ------------------------------------------------------------------------
\* useExporter (src/hooks/useExporter.ts) and the export button of App
\* driving the RenderService singleton.  Several renderPlaylist invocations
\* can be alive at once here, so each is kept as a record of `renders` that
\* follows the control points of renderPlaylist where cancel() matters: the
\* abort check at the start of every decode batch (line 386), the check at
\* the top of processFrame (line 607) and the settlement.
MaxRenders == 2

\* a one-batch playlist and a two-batch playlist
ExporterPlaylists == {<<2942>>, <<600, 600, 600, 600, 600>>}

exporterRest ==
    <<pc, outcome, inputVars, decodeVars, timelineVars, aborted, hasEncoderError,
      clockVars, videoVars, audioVars, muxer, assetVars, progress, finLog,
      ghostVars, drawVars, configureCalls, libraryVars>>

ExporterInit ==
    /\ pc = "idle" /\ outcome = "none"
    /\ tracks \in ExporterPlaylists
    /\ writableStream = FALSE /\ settings = NoOverlays
    /\ decodedBuffers = <<>> /\ settled = {} /\ batchStart = 0
    /\ processedCount = 0
    /\ validBuffers = <<>> /\ totalDuration = 0 /\ totalFrames = 0
    /\ mixStarts = <<>> /\ tapStarts = <<>>
    /\ aborted = FALSE /\ hasEncoderError = FALSE
    /\ ctx = "none" /\ suspends = {} /\ procs = {} /\ skipped = {}
    /\ composited = <<>> /\ submitted = <<>> /\ audioSubmitted = <<>>
    /\ vState = "none" /\ vQueue = 0 /\ aState = "none" /\ aQueue = 0
    /\ audioPos = 0 /\ muxer = "none" /\ muxVideo = 0 /\ muxAudio = 0
    /\ bitmaps = {} /\ gif = "none"
    /\ progress = <<>> /\ finLog = <<>> /\ cancelInfo = <<>> /\ errInfo = <<>>
    /\ isExporting = FALSE
    /\ showExportModal = FALSE
    /\ renders = <<>>
    /\ alerts = <<>>
    /\ effectLog = <<>>
    /\ visualizerMode = "BARS"
    /\ effects = {}
    /\ isPlaying = FALSE
    /\ analysis = NoAnalysis
    /\ canvasOps = <<>>
    /\ configureCalls = <<>>
    /\ selectedTrackIds = {} /\ pending = {} /\ created = 0 /\ orphaned = {}

\* triggerExportModal (lines 45-61), reached from the button while it reads
\* "export" (App: onClick = isExporting ? cancelExport : triggerExportModal)
TriggerExportModal ==
    /\ ~isExporting
    /\ ~showExportModal
    /\ tracks # <<>>
    /\ showExportModal' = TRUE
    /\ UNCHANGED <<isExporting, renders, alerts, exporterRest>>

\* startPlaylistExport (lines 107-176), the dialog's onConfirm, up to the
\* await of renderPlaylist.  The file picker yields a writable stream or the
\* export falls back to memory (a dismissed picker returns with nothing
\* changed).  renderPlaylist runs to its first await: a fresh
\* AbortController, the first batch in flight.
\* fileHandle.createWritable() (lines 129, 149) opens the stream; the record
\* keeps whether it is still open.  No statement of startPlaylistExport or of
\* renderPlaylist calls close() or abort() on it, and the muxer's
\* FileSystemWritableFileStreamTarget (part_000 line 462) writes to the
\* stream and leaves closing it to its owner.
StartPlaylistExport ==
    /\ showExportModal
    /\ tracks # <<>>
    /\ Len(renders) < MaxRenders
    /\ \E stream \in BOOLEAN :
        renders' = Append(renders,
                          [stream |-> stream, streamOpen |-> stream, signal |-> FALSE,
                           stage |-> "decoding", batch |-> 0, frame |-> 0,
                           outcome |-> "none"])
    /\ showExportModal' = FALSE
    /\ isExporting' = TRUE
    /\ UNCHANGED <<alerts, exporterRest>>

\* cancelExport (lines 205-208): renderService.cancel() aborts the controller
\* of the latest invocation, then setIsExporting(false)
CancelExport ==
    /\ isExporting
    /\ renders' = IF renders = <<>> THEN renders
                  ELSE [renders EXCEPT ![Len(renders)].signal = TRUE]
    /\ isExporting' = FALSE
    /\ UNCHANGED <<showExportModal, alerts, exporterRest>>

\* renderPlaylist settles and startPlaylistExport goes on after its await
\* (lines 178-202): the saved alert for a stream, the download for a url,
\* the error alert of the catch for any rejection, and the finally block.
ExportSettles(k, stage, result) ==
    /\ renders' = [renders EXCEPT ![k].stage = stage, ![k].outcome = result]
    /\ alerts' =
         IF stage = "rejected"
         THEN Append(alerts, [render |-> k, kind |-> "error", message |-> result])
         ELSE IF renders[k].stream
         THEN Append(alerts, [render |-> k, kind |-> "saved", message |-> "none"])
         ELSE alerts
    /\ isExporting' = FALSE
    /\ UNCHANGED showExportModal

\* A decode batch has settled (lines 385-417): the next batch starts with the
\* abort check, after the last one the pipeline is set up and rendering starts
ExportBatchDone ==
    \E k \in 1..Len(renders) :
        /\ renders[k].stage = "decoding"
        /\ IF renders[k].batch + BATCH_SIZE < Len(tracks)
           THEN IF renders[k].signal
                THEN ExportSettles(k, "rejected", "Render Aborted")
                ELSE /\ renders' = [renders EXCEPT
                                       ![k].batch = renders[k].batch + BATCH_SIZE]
                     /\ UNCHANGED <<isExporting, showExportModal, alerts>>
           ELSE /\ renders' = [renders EXCEPT ![k].stage = "frames"]
                /\ UNCHANGED <<isExporting, showExportModal, alerts>>
        /\ UNCHANGED exporterRest

\* processFrame(i) (lines 606-763): with the signal aborted it returns
\* without resuming the audio context, and startRendering() stays pending
ExportFrame ==
    \E k \in 1..Len(renders) :
        /\ renders[k].stage = "frames"
        /\ renders[k].frame < TotalFramesOf(SumSeq(tracks))
        /\ renders' = IF renders[k].signal
                      THEN [renders EXCEPT ![k].stage = "stalled"]
                      ELSE [renders EXCEPT ![k].frame = renders[k].frame + 1]
        /\ UNCHANGED <<isExporting, showExportModal, alerts, exporterRest>>

\* Lines 774-859: rendering completed, the encoders are flushed and the file
\* is finalized (or finalize throws)
ExportFinalize ==
    \E k \in 1..Len(renders), finalizeOk \in BOOLEAN :
        /\ renders[k].stage = "frames"
        /\ renders[k].frame = TotalFramesOf(SumSeq(tracks))
        /\ IF finalizeOk
           THEN ExportSettles(k, "resolved",
                              IF renders[k].stream THEN "null" ELSE "url")
           ELSE ExportSettles(k, "rejected", "Finalize failed")
        /\ UNCHANGED exporterRest

ExporterNext ==
    \/ TriggerExportModal
    \/ StartPlaylistExport
    \/ CancelExport
    \/ ExportBatchDone
    \/ ExportFrame
    \/ ExportFinalize

SpecExporter == ExporterInit /\ [][ExporterNext]_vars

\* ------------------------------------------------------------------------
\* videoEncoder.encode() throwing although the encoder is configured (a
\* frame it cannot take).  The catch of lines 749-751 logs the exception;
\* the frame is closed, the next suspend is scheduled and the context
\* resumed as after a successful call.  Taken at the yield of a frame, and
\* for the first dropped frame only.
EncodeThrows ==
    \E p \in procs :
        /\ p.at = "yield"
        /\ vState = "configured"
        /\ Len(composited) = Len(submitted)
        /\ composited' = Append(composited, p.frame)
        /\ effectLog' = effectLog \o EffectCalls(p.frame)
        /\ suspends' = IF /\ NextFrameIndex(p.frame) < totalFrames
                          /\ SuspendAccepted(NextFrameIndex(p.frame), totalDuration)
                       THEN suspends \cup {NextFrameIndex(p.frame)}
                       ELSE suspends
        /\ ctx' = "running"
        /\ procs' = procs \ {p}
        /\ UNCHANGED <<pc, outcome, inputVars, uiVars, drawVars, configureCalls, libraryVars, decodeVars, timelineVars,
                       aborted, hasEncoderError, skipped, videoVars, audioVars,
                       muxer, assetVars, progress, finLog, ghostVars>>

EncodeFaultNext ==
    \/ Next
    \/ EncodeThrows

SpecEncodeFault == Init /\ [][EncodeFaultNext]_vars

\* ------------------------------------------------------------------------
\* The render of Spec with its own steps scheduled fairly: timers, promise
\* reactions and the audio clock run when they can.  Nothing is assumed of
\* the encoders, which may stop emitting chunks, or of the user.
SpecStalledEncoder == Spec /\ WF_vars(RenderStep)

\* ------------------------------------------------------------------------
\* The analysis and the drawing of one processFrame (lines 626-744) as
\* functions of the visualizer mode, the effect switches, the loaded assets
\* and the bytes the analyser returns.
fftSize == 2048
frequencyBinCount == fftSize \div 2
EnergyStep == 4
BeatThreshold == 200

\* the cases of renderSpectrum's switch (lines 582-600)
VisualizerModes ==
    {"BARS", "WAVE", "CIRCULAR", "DUAL_BARS", "RIPPLE", "PIXEL", "EQUALIZER",
     "STARBURST", "BUTTERFLY", "AURORA", "SPECTRUM", "DOT_WAVE", "LED_BARS",
     "FLUID", "PARTICLES", "JELLY_WAVE", "PULSE_CIRCLES", "FLOWER_PETALS"}

\* visualizerSettings.effects: the switches the frame's drawing reads
EffectSwitches == {"shake", "pulse", "glitch", "mirror"}

\* Contents of dataArray after the analyser filled it, by the name of the
\* signal: level everywhere; the five lowest bins just over the threshold on
\* average; every 4th byte at 0 around the centre value; the five lowest
\* bins silent under loud upper bins.
DataIds ==
    {"flat128", "flat200", "flat228", "flat229", "flat255", "bass201", "fourth0",
     "upper255"}

\* dataArray[k] of the signal, k from 0
DataAt(id, k) ==
    CASE id = "flat128" -> 128
      [] id = "flat200" -> 200
      [] id = "flat228" -> 228
      [] id = "flat229" -> 229
      [] id = "flat255" -> 255
      [] id = "bass201" -> (IF k < 4 THEN 200 ELSE IF k = 4 THEN 201 ELSE 128)
      [] id = "fourth0" -> (IF k % 4 = 0 THEN 0 ELSE 128)
      [] id = "upper255" -> (IF k < 5 THEN 0 ELSE 255)

Abs(x) == IF x < 0 THEN 0 - x ELSE x

\* sum of |dataArray[k * step] - 128| over the loop's iterations first..last
\* (for (k = 0; k < length; k += step) is iteration 0 to the last multiple of
\* step below the length), split in halves to keep the evaluation shallow
RECURSIVE SumDeviation(_, _, _, _)
SumDeviation(id, first, last, step) ==
    IF first > last THEN 0
    ELSE IF first = last THEN Abs(DataAt(id, first * step) - 128)
    ELSE LET mid == (first + last) \div 2
         IN  SumDeviation(id, first, mid, step) + SumDeviation(id, mid + 1, last, step)

LastIteration(length, step) == (length - 1) \div step

\* dataArray[0] + ... + dataArray[last]
RECURSIVE SumBins(_, _)
SumBins(id, last) ==
    IF last < 0 THEN 0 ELSE DataAt(id, last) + SumBins(id, last - 1)

ReadsTimeDomainOfPreview(mode) == mode \in {"WAVE", "FILLED"}

\* line 630: the modes for which getByteTimeDomainData fills dataArray
ReadsTimeDomain(mode) == mode \in {"WAVE", "FLUID", "JELLY_WAVE"}

\* line 637: the modes whose energy is taken from the lowest bins
UsesBinEnergy(mode) == mode \notin {"WAVE", "FLUID", "JELLY_WAVE"}

\* bassEnergy (lines 636-644) as the fraction <<numerator, denominator>>:
\* (d[0] + ... + d[4]) / 5, or (sum / (length / step)) * 2
bassEnergy(mode, id) ==
    IF UsesBinEnergy(mode)
    THEN <<SumBins(id, 4), 5>>
    ELSE <<2 * EnergyStep * SumDeviation(id, 0, LastIteration(frequencyBinCount, EnergyStep), EnergyStep),
           frequencyBinCount>>

\* isBeat = bassEnergy > 200 (line 645)
isBeat(e) == e[1] > BeatThreshold * e[2]

Analyse(mode, id) ==
    LET e == bassEnergy(mode, id)
    IN  [domain |-> IF ReadsTimeDomain(mode) THEN "time" ELSE "frequency",
         data |-> id, energy |-> e, isBeat |-> isBeat(e)]

Step(cond, ops) == IF cond THEN ops ELSE <<>>

\* the order of section 4.3: the background before the transforms
DrawingStepsBackgroundFirst(fx, bm, g, beat) ==
    <<"clear", "save">>
    \o Step("bg" \in bm, <<"background", "overlay">>)
    \o Step("shake" \in fx /\ beat, <<"shake">>)
    \o Step("pulse" \in fx, <<"pulse">>)
    \o (IF "mirror" \in fx THEN <<"spectrum", "spectrumFlipped">> ELSE <<"spectrum">>)
    \o Step("logo" \in bm, <<"logo">>)
    \o Step("sticker" \in DrawnOverlays(bm, g), <<"sticker">>)
    \o <<"effects">>
    \o Step("glitch" \in fx /\ beat, <<"glitch">>)
    \o <<"restore">>

\* Lines 650-742: what is drawn on the canvas, in order
DrawingSteps(fx, bm, g, beat) ==
    <<"clear", "save">>
    \o Step("shake" \in fx /\ beat, <<"shake">>)
    \o Step("pulse" \in fx, <<"pulse">>)
    \o Step("bg" \in bm, <<"background", "overlay">>)
    \o (IF "mirror" \in fx THEN <<"spectrum", "spectrumFlipped">> ELSE <<"spectrum">>)
    \o Step("logo" \in bm, <<"logo">>)
    \o Step("sticker" \in DrawnOverlays(bm, g), <<"sticker">>)
    \o <<"effects">>
    \o Step("glitch" \in fx /\ beat, <<"glitch">>)
    \o <<"restore">>

MaxCompositorFrames == 2

\* The assets the loads of lines 557-573 leave for the frames
CompositorSettings ==
    [backgroundImage : {"none", "ok"}, logoImage : {"none", "ok"},
     stickerImage : {"none", "gif", "static"}]

\* A render of one track of three frames, stopped at the first frame's
\* drawing; the mode, the effect switches and the overlays are the inputs.
CompositorInit ==
    /\ pc = "awaitRendering" /\ outcome = "none"
    /\ tracks = <<4410>> /\ writableStream = FALSE
    /\ settings \in CompositorSettings
    /\ decodedBuffers = <<4410>> /\ settled = {1} /\ batchStart = BATCH_SIZE
    /\ processedCount = 1
    /\ validBuffers = <<4410>> /\ totalDuration = 4410 /\ totalFrames = 3
    /\ mixStarts = <<0>> /\ tapStarts = <<0>>
    /\ aborted = FALSE /\ hasEncoderError = FALSE
    /\ ctx = "suspended" /\ suspends = {} /\ skipped = {}
    /\ procs = {[frame |-> 0, at |-> "yield"]}
    /\ composited = <<>> /\ effectLog = <<>>
    /\ vState = "configured" /\ vQueue = 0 /\ submitted = <<>> /\ muxVideo = 0
    /\ aState = "configured" /\ aQueue = 0 /\ audioPos = 0
    /\ audioSubmitted = <<>> /\ muxAudio = 0
    /\ muxer = "open"
    /\ bitmaps = LoadImage(settings.backgroundImage, "bg")
                 \cup LoadImage(settings.logoImage, "logo")
                 \cup (IF settings.stickerImage = "static" THEN {"sticker"} ELSE {})
    /\ gif = IF settings.stickerImage = "gif" THEN "loaded" ELSE "empty"
    /\ progress = <<<<0, 1>>, <<1, 1>>, <<0, 3>>, <<0, 3>>>>
    /\ finLog = <<>> /\ cancelInfo = <<>> /\ errInfo = <<>>
    /\ isExporting = FALSE /\ showExportModal = FALSE
    /\ renders = <<>> /\ alerts = <<>>
    /\ visualizerMode \in VisualizerModes
    /\ effects \in SUBSET EffectSwitches
    /\ isPlaying = FALSE
    /\ analysis = NoAnalysis
    /\ canvasOps = <<>>
    /\ configureCalls = <<PrimaryCodec>>
    /\ selectedTrackIds = {} /\ pending = {} /\ created = 0 /\ orphaned = {}

\* Lines 626-744 for the next frame: the analyser is read, the energy and the
\* beat computed, the effect engine advanced, the canvas drawn and wrapped
\* into a VideoFrame.
CompositorFrame ==
    /\ Len(composited) < MaxCompositorFrames
    /\ \E id \in DataIds :
          LET i == Len(composited)
              a == Analyse(visualizerMode, id)
          IN  /\ analysis' = a
              /\ canvasOps' = DrawingSteps(effects, bitmaps, gif, a.isBeat) \o <<"wrap">>
              /\ effectLog' = effectLog \o EffectCalls(i)
              /\ composited' = Append(composited, i)
    /\ UNCHANGED <<pc, outcome, inputVars, uiVars, decodeVars, timelineVars, aborted,
                   hasEncoderError, ctx, suspends, procs, skipped, videoVars,
                   audioVars, muxer, assetVars, progress, finLog, ghostVars,
                   visualizerMode, effects, isPlaying, configureCalls, libraryVars>>

CompositorNext == CompositorFrame

SpecCompositor == CompositorInit /\ [][CompositorNext]_vars

\* ------------------------------------------------------------------------
\* The live preview: the render callback of the Visualizer component
\* (src/unnamed/part_006 lines 95-356), run once per animation frame, and the
\* isPlaying property changing between frames (the effect of line 92 restarts
\* the loop with the new value).
PreviewModes == {"BARS", "WAVE", "FILLED"}
PreviewEffectSwitches == {"shake", "pulse", "glitch"}
PreviewBins == 10

\* lines 128-132
PreviewReadsTimeDomain(mode) == mode \in {"WAVE", "FILLED"}

\* Lines 135-145: the mean of the first 10 bins, or twice the mean deviation
\* of all samples; bufferLength is taken to be the analyser's bin count
PreviewEnergy(mode, id) ==
    IF ~PreviewReadsTimeDomain(mode)
    THEN <<SumBins(id, PreviewBins - 1), PreviewBins>>
    ELSE <<2 * SumDeviation(id, 0, LastIteration(frequencyBinCount, 1), 1),
           frequencyBinCount>>

EnergyWhilePaused(playing, e) == e

\* lines 148-150: if (!isPlaying) bassEnergy = 0
EnergyGated(playing, e) == IF ~playing THEN <<0, 1>> ELSE e

\* Lines 155-157 and 331: update only while playing, with no timestep; draw
\* always
PreviewEffectCalls(i, playing) ==
    Step(playing, <<[call |-> "update", frame |-> i, dt |-> "default"]>>)
    \o <<[call |-> "draw", frame |-> i]>>

\* Lines 159-353: what render draws, in order
PreviewDrawingSteps(fx, bm, g, beat) ==
    <<"save">>
    \o Step("shake" \in fx /\ beat, <<"shake">>)
    \o Step("pulse" \in fx, <<"pulse">>)
    \o (IF "bg" \in bm THEN <<"background", "overlay">> ELSE <<"clear">>)
    \o (IF "mirror" \in fx THEN <<"spectrum", "spectrumFlipped">> ELSE <<"spectrum">>)
    \o Step("logo" \in bm, <<"logo">>)
    \o Step("sticker" \in DrawnOverlays(bm, g), <<"sticker">>)
    \o <<"effects">>
    \o Step("glitch" \in fx /\ beat, <<"glitch">>)
    \o <<"restore">>

MaxPreviewFrames == 2

\* settings of the component: no image at all, or all three with an
\* animated sticker
PreviewSettings ==
    {NoOverlays,
     [backgroundImage |-> "ok", logoImage |-> "ok", stickerImage |-> "gif"]}

\* The component mounted with its images loaded; no export is running.
PreviewInit ==
    /\ pc = "idle" /\ outcome = "none"
    /\ tracks = <<>> /\ writableStream = FALSE
    /\ settings \in PreviewSettings
    /\ decodedBuffers = <<>> /\ settled = {} /\ batchStart = 0
    /\ processedCount = 0
    /\ validBuffers = <<>> /\ totalDuration = 0 /\ totalFrames = 0
    /\ mixStarts = <<>> /\ tapStarts = <<>>
    /\ aborted = FALSE /\ hasEncoderError = FALSE
    /\ ctx = "none" /\ suspends = {} /\ skipped = {} /\ procs = {}
    /\ composited = <<>> /\ effectLog = <<>>
    /\ vState = "none" /\ vQueue = 0 /\ submitted = <<>> /\ muxVideo = 0
    /\ aState = "none" /\ aQueue = 0 /\ audioPos = 0
    /\ audioSubmitted = <<>> /\ muxAudio = 0
    /\ muxer = "none"
    /\ bitmaps = LoadImage(settings.backgroundImage, "bg")
                 \cup LoadImage(settings.logoImage, "logo")
                 \cup (IF settings.stickerImage = "static" THEN {"sticker"} ELSE {})
    /\ gif = IF settings.stickerImage = "gif" THEN "loaded" ELSE "empty"
    /\ progress = <<>>
    /\ finLog = <<>> /\ cancelInfo = <<>> /\ errInfo = <<>>
    /\ isExporting = FALSE /\ showExportModal = FALSE
    /\ renders = <<>> /\ alerts = <<>>
    /\ visualizerMode \in PreviewModes
    /\ effects \in SUBSET PreviewEffectSwitches
    /\ isPlaying \in BOOLEAN
    /\ analysis = NoAnalysis
    /\ canvasOps = <<>>
    /\ configureCalls = <<>>
    /\ selectedTrackIds = {} /\ pending = {} /\ created = 0 /\ orphaned = {}

\* render(time), lines 95-356
PreviewRender ==
    /\ Len(composited) < MaxPreviewFrames
    /\ \E id \in DataIds :
          LET i == Len(composited)
              e == EnergyGated(isPlaying, PreviewEnergy(visualizerMode, id))
              beat == isBeat(e)
          IN  /\ analysis' = [domain |-> IF PreviewReadsTimeDomain(visualizerMode)
                                         THEN "time" ELSE "frequency",
                              data |-> id, energy |-> e, isBeat |-> beat]
              /\ effectLog' = effectLog \o PreviewEffectCalls(i, isPlaying)
              /\ canvasOps' = PreviewDrawingSteps(effects, bitmaps, gif, beat)
              /\ composited' = Append(composited, i)
    /\ UNCHANGED <<pc, outcome, inputVars, uiVars, decodeVars, timelineVars, aborted,
                   hasEncoderError, ctx, suspends, procs, skipped, videoVars,
                   audioVars, muxer, assetVars, progress, finLog, ghostVars,
                   visualizerMode, effects, isPlaying, configureCalls, libraryVars>>

\* playback is started or paused between two animation frames
TogglePlaying ==
    /\ isPlaying' = ~isPlaying
    /\ UNCHANGED <<pc, outcome, inputVars, uiVars, decodeVars, timelineVars, aborted,
                   hasEncoderError, clockVars, videoVars, audioVars, muxer,
                   assetVars, progress, finLog, ghostVars, visualizerMode, effects,
                   analysis, canvasOps, configureCalls, libraryVars>>

PreviewNext ==
    \/ PreviewRender
    \/ TogglePlaying

SpecPreview == PreviewInit /\ [][PreviewNext]_vars

\* ------------------------------------------------------------------------
\* Overlapping renderPlaylist invocations on the renderService singleton
\* (lines 337-366, 869-874).  this.abortController and this.hasEncoderError
\* are fields of the one instance; each invocation keeps the signal of the
\* controller it created in a local (line 364) and its encoders' error
\* callbacks write the shared flag (lines 476, 510).  An invocation is a
\* record of `renders`; the controller the field holds is the one of the
\* last record.
MaxCancels == 2

InFlight(r) == r.stage \in {"decoding", "frames"}

\* Lines 362-364 and the first batch in flight
SingletonRenderPlaylist ==
    /\ Len(renders) < MaxRenders
    /\ renders' = Append(renders,
                         [signal |-> FALSE, stage |-> "decoding", frame |-> 0,
                          ownError |-> FALSE, outcome |-> "none"])
    /\ hasEncoderError' = FALSE
    /\ UNCHANGED <<pc, outcome, inputVars, decodeVars, timelineVars, aborted,
                   clockVars, videoVars, audioVars, muxer, assetVars, progress,
                   finLog, ghostVars, drawVars, configureCalls, libraryVars, isExporting,
                   showExportModal, alerts>>

\* Lines 385-417 for a playlist of one batch: the decode settles, the
\* pipeline is set up and the frame clock starts
SingletonDecoded ==
    \E k \in 1..Len(renders) :
        /\ renders[k].stage = "decoding"
        /\ renders' = [renders EXCEPT ![k].stage = "frames"]
        /\ UNCHANGED <<pc, outcome, inputVars, decodeVars, timelineVars, aborted,
                       hasEncoderError, clockVars, videoVars, audioVars, muxer,
                       assetVars, progress, finLog, ghostVars, drawVars,
                       configureCalls, libraryVars, isExporting, showExportModal, alerts>>

\* Line 607 of processFrame(i): with its own signal aborted or the shared
\* flag set the invocation's frame clock returns and its startRendering()
\* stays pending; otherwise the frame is made
SingletonFrame ==
    \E k \in 1..Len(renders) :
        /\ renders[k].stage = "frames"
        /\ renders[k].frame < TotalFramesOf(SumSeq(tracks))
        /\ renders' = IF renders[k].signal \/ hasEncoderError
                      THEN [renders EXCEPT ![k].stage = "stalled"]
                      ELSE [renders EXCEPT ![k].frame = renders[k].frame + 1]
        /\ UNCHANGED <<pc, outcome, inputVars, decodeVars, timelineVars, aborted,
                       hasEncoderError, clockVars, videoVars, audioVars, muxer,
                       assetVars, progress, finLog, ghostVars, drawVars,
                       configureCalls, libraryVars, isExporting, showExportModal, alerts>>

\* The error callback of an encoder of invocation k (lines 474-478, 508-512)
SingletonEncoderError ==
    \E k \in 1..Len(renders) :
        /\ renders[k].stage = "frames"
        /\ ~renders[k].ownError
        /\ renders' = [renders EXCEPT ![k].ownError = TRUE]
        /\ hasEncoderError' = TRUE
        /\ UNCHANGED <<pc, outcome, inputVars, decodeVars, timelineVars, aborted,
                       clockVars, videoVars, audioVars, muxer, assetVars, progress,
                       finLog, ghostVars, drawVars, configureCalls, libraryVars, isExporting,
                       showExportModal, alerts>>

\* Lines 774-859: all frames made, the file is finalized and the promise
\* resolves
SingletonComplete ==
    \E k \in 1..Len(renders) :
        /\ renders[k].stage = "frames"
        /\ renders[k].frame = TotalFramesOf(SumSeq(tracks))
        /\ renders' = [renders EXCEPT ![k].stage = "resolved", ![k].outcome = "url"]
        /\ UNCHANGED <<pc, outcome, inputVars, decodeVars, timelineVars, aborted,
                       hasEncoderError, clockVars, videoVars, audioVars, muxer,
                       assetVars, progress, finLog, ghostVars, drawVars,
                       configureCalls, libraryVars, isExporting, showExportModal, alerts>>

\* cancel() (lines 869-871) aborts the controller the field holds; cancelInfo
\* keeps which invocations were in flight at each call
SingletonCancel ==
    /\ Len(cancelInfo) < MaxCancels
    /\ renders # <<>>
    /\ renders' = [renders EXCEPT ![Len(renders)].signal = TRUE]
    /\ cancelInfo' = Append(cancelInfo,
                            [inFlight |-> {k \in 1..Len(renders) : InFlight(renders[k])}])
    /\ UNCHANGED <<pc, outcome, inputVars, decodeVars, timelineVars, aborted,
                   hasEncoderError, clockVars, videoVars, audioVars, muxer,
                   assetVars, progress, finLog, errInfo, drawVars, configureCalls, libraryVars,
                   isExporting, showExportModal, alerts>>

SingletonNext ==
    \/ SingletonRenderPlaylist
    \/ SingletonDecoded
    \/ SingletonFrame
    \/ SingletonEncoderError
    \/ SingletonComplete
    \/ SingletonCancel

SpecSingleton == ExporterInit /\ [][SingletonNext]_vars

\* ------------------------------------------------------------------------
\* The batched decode (lines 375-421) of playlists longer than one batch:
\* six tracks of different lengths, any of which may fail to decode, from
\* the first batch in flight to the set-up of the timeline.
BatchTracks == 6

BatchPlaylists ==
    {[k \in 1..BatchTracks |-> IF k \in failing THEN NoBuffer ELSE 500 + 100 * k] :
        failing \in SUBSET (1..BatchTracks)}

BatchDecodeInit ==
    /\ pc = "decoding" /\ outcome = "none"
    /\ tracks \in BatchPlaylists
    /\ writableStream = FALSE /\ settings = NoOverlays
    /\ decodedBuffers = [k \in 1..Len(tracks) |-> NoBuffer]
    /\ settled = {} /\ batchStart = 0 /\ processedCount = 0
    /\ validBuffers = <<>> /\ totalDuration = 0 /\ totalFrames = 0
    /\ mixStarts = <<>> /\ tapStarts = <<>>
    /\ aborted = FALSE /\ hasEncoderError = FALSE
    /\ ctx = "none" /\ suspends = {} /\ procs = {} /\ skipped = {}
    /\ composited = <<>> /\ submitted = <<>> /\ audioSubmitted = <<>>
    /\ vState = "none" /\ vQueue = 0 /\ aState = "none" /\ aQueue = 0
    /\ audioPos = 0 /\ muxer = "none" /\ muxVideo = 0 /\ muxAudio = 0
    /\ bitmaps = {} /\ gif = "none"
    /\ progress = <<<<0, Len(tracks)>>>>
    /\ finLog = <<>> /\ cancelInfo = <<>> /\ errInfo = <<>>
    /\ isExporting = FALSE /\ showExportModal = FALSE
    /\ renders = <<>> /\ alerts = <<>>
    /\ effectLog = <<>> /\ visualizerMode = "BARS" /\ effects = {}
    /\ isPlaying = FALSE /\ analysis = NoAnalysis /\ canvasOps = <<>>
    /\ configureCalls = <<>>
    /\ selectedTrackIds = {} /\ pending = {} /\ created = 0 /\ orphaned = {}

BatchDecodeNext ==
    \/ DecodeTrack
    \/ BatchDone
    \/ SetupPipeline

SpecBatchDecode == BatchDecodeInit /\ [][BatchDecodeNext]_vars

\* ------------------------------------------------------------------------
\* The track library: the useLibrary hook (src/hooks/useLibrary.ts).  tracks
\* is the list the hook keeps (one record per track: its id and the mood the
\* analysis assigned), selectedTrackIds the selection, pending the promises
\* the handlers have started and not yet seen settle.  A handler runs up to
\* its await; the continuation is a step of its own.
MaxLibraryIds == 3
MaxLibraryAlerts == 1

LibraryIds == 1..MaxLibraryIds

\* a track as handleFilesAdded builds it (lines 31-38): no mood yet
NewTrack(id) == [id |-> id, mood |-> "none"]

TrackIds(list) == {list[k].id : k \in 1..Len(list)}

\* Array.prototype.findIndex, with positions counted from 1 and 0 for the
\* -1 of a search without a match
findIndex(list, id) ==
    IF id \in TrackIds(list)
    THEN CHOOSE k \in 1..Len(list) :
            list[k].id = id /\ \A j \in 1..(k - 1) : list[j].id # id
    ELSE 0

\* list.splice(k, 1) and list.splice(k, 0, x), positions counted from 1
RemoveAt(list, k) == SubSeq(list, 1, k - 1) \o SubSeq(list, k + 1, Len(list))
InsertAt(list, k, x) == SubSeq(list, 1, k - 1) \o <<x>> \o SubSeq(list, k, Len(list))

targetIndexBeforeRemoval(prev, newTracks, targetTrackId) == findIndex(prev, targetTrackId)

\* line 72: the target is looked up again in the list without the source
newTargetIndex(prev, newTracks, targetTrackId) == findIndex(newTracks, targetTrackId)

\* the updater of handleReorderTrack (lines 59-78)
handleReorderTrack(prev, sourceTrackId, targetTrackId) ==
    LET sourceIndex == findIndex(prev, sourceTrackId)
        targetIndex == findIndex(prev, targetTrackId)
    IN  IF sourceIndex = 0 \/ targetIndex = 0 \/ sourceIndex = targetIndex
        THEN prev
        ELSE LET newTracks == RemoveAt(prev, sourceIndex)
             IN  InsertAt(newTracks, newTargetIndex(prev, newTracks, targetTrackId),
                          prev[sourceIndex])

AddOrUpdateMood(prevTracks, id, mood) ==
    IF id \in TrackIds(prevTracks)
    THEN [k \in 1..Len(prevTracks) |->
             IF prevTracks[k].id = id THEN [prevTracks[k] EXCEPT !.mood = mood]
             ELSE prevTracks[k]]
    ELSE Append(prevTracks, [id |-> id, mood |-> mood])

\* the updater of lines 46-51: prevTracks.map(t => t.id === track.id ? ... : t)
UpdateMood(prevTracks, id, mood) ==
    [k \in 1..Len(prevTracks) |->
        IF prevTracks[k].id = id THEN [prevTracks[k] EXCEPT !.mood = mood]
        ELSE prevTracks[k]]

\* prev.filter(t => t.id !== trackId) of line 87
WithoutTrack(prev, trackId) == SelectSeq(prev, LAMBDA t : t.id # trackId)

KeepInSelection(prev, trackId) == prev

\* the updater of lines 90-94: next.delete(trackId)
RemoveFromSelection(prev, trackId) == prev \ {trackId}

\* new Set(tracks.map(t => t.id)) of line 141
AllIds(list) == TrackIds(list)

libraryRest ==
    <<pc, outcome, writableStream, settings, decodeVars, timelineVars, aborted,
      hasEncoderError, clockVars, videoVars, audioVars, muxer, assetVars,
      progress, finLog, ghostVars, isExporting, showExportModal, renders,
      drawVars, configureCalls>>

\* The hook after its first render with nothing in localStorage
LibraryInit ==
    /\ pc = "idle" /\ outcome = "none"
    /\ tracks = <<>>
    /\ writableStream = FALSE /\ settings = NoOverlays
    /\ decodedBuffers = <<>> /\ settled = {} /\ batchStart = 0
    /\ processedCount = 0
    /\ validBuffers = <<>> /\ totalDuration = 0 /\ totalFrames = 0
    /\ mixStarts = <<>> /\ tapStarts = <<>>
    /\ aborted = FALSE /\ hasEncoderError = FALSE
    /\ ctx = "none" /\ suspends = {} /\ procs = {} /\ skipped = {}
    /\ composited = <<>> /\ submitted = <<>> /\ audioSubmitted = <<>>
    /\ vState = "none" /\ vQueue = 0 /\ aState = "none" /\ aQueue = 0
    /\ audioPos = 0 /\ muxer = "none" /\ muxVideo = 0 /\ muxAudio = 0
    /\ bitmaps = {} /\ gif = "none"
    /\ progress = <<>> /\ finLog = <<>> /\ cancelInfo = <<>> /\ errInfo = <<>>
    /\ isExporting = FALSE
    /\ showExportModal = FALSE
    /\ renders = <<>>
    /\ alerts = <<>>
    /\ effectLog = <<>>
    /\ visualizerMode = "BARS"
    /\ effects = {}
    /\ isPlaying = FALSE
    /\ analysis = NoAnalysis
    /\ canvasOps = <<>>
    /\ configureCalls = <<>>
    /\ selectedTrackIds = {} /\ pending = {} /\ created = 0 /\ orphaned = {}

\* handleFilesAdded (lines 30-55) with one or two files: the tracks are
\* appended and an analysis is started for each
FilesAdded ==
    \E n \in 1..2 :
        /\ created + n <= MaxLibraryIds
        /\ created' = created + n
        /\ tracks' = tracks \o [k \in 1..n |-> NewTrack(created + k)]
        /\ pending' = pending \cup {[op |-> "analyze", id |-> created + k] : k \in 1..n}
        /\ UNCHANGED <<selectedTrackIds, alerts, orphaned, libraryRest>>

\* the then() of line 45; a rejected analysis has no handler and changes
\* nothing
AnalysisSettles ==
    \E p \in pending, ok \in BOOLEAN :
        /\ p.op = "analyze"
        /\ pending' = pending \ {p}
        /\ tracks' = IF ok THEN UpdateMood(tracks, p.id, "mood") ELSE tracks
        /\ orphaned' = IF ok /\ p.id \notin TrackIds(tracks)
                       THEN orphaned \cup {p.id} ELSE orphaned
        /\ UNCHANGED <<selectedTrackIds, created, alerts, libraryRest>>

\* a drop of one playlist row on another (handleReorderTrack, lines 58-79);
\* the ids are whatever the drag event carries
ReorderTrack ==
    \E sourceTrackId, targetTrackId \in LibraryIds :
        /\ tracks' = handleReorderTrack(tracks, sourceTrackId, targetTrackId)
        /\ UNCHANGED <<selectedTrackIds, pending, created, alerts, orphaned, libraryRest>>

\* handleDeleteTrack up to its await (lines 81-84), from a row of the list
DeleteTrack ==
    \E trackId \in TrackIds(tracks) :
        /\ pending' = pending \cup {[op |-> "delete", id |-> trackId]}
        /\ UNCHANGED <<tracks, selectedTrackIds, created, alerts, orphaned, libraryRest>>

\* storageService.deleteFile settles: lines 86-97, or the catch of lines
\* 98-101
DeleteSettles ==
    \E p \in pending, ok \in BOOLEAN :
        /\ p.op = "delete"
        /\ pending' = pending \ {p}
        /\ IF ok
           THEN /\ tracks' = WithoutTrack(tracks, p.id)
                /\ selectedTrackIds' = RemoveFromSelection(selectedTrackIds, p.id)
                /\ UNCHANGED alerts
           ELSE /\ Len(alerts) < MaxLibraryAlerts
                /\ alerts' = Append(alerts, [render |-> 0, kind |-> "error",
                                              message |-> "delete failed"])
                /\ UNCHANGED <<tracks, selectedTrackIds>>
        /\ UNCHANGED <<created, orphaned, libraryRest>>

\* handleClearLibrary up to its await (lines 104-107)
ClearLibrary ==
    /\ pending' = pending \cup {[op |-> "clear", id |-> 0]}
    /\ UNCHANGED <<tracks, selectedTrackIds, created, alerts, orphaned, libraryRest>>

\* storageService.clearAllFiles settles: lines 109-114, or the catch
ClearSettles ==
    \E p \in pending, ok \in BOOLEAN :
        /\ p.op = "clear"
        /\ pending' = pending \ {p}
        /\ IF ok
           THEN /\ tracks' = <<>>
                /\ selectedTrackIds' = {}
                /\ UNCHANGED alerts
           ELSE /\ Len(alerts) < MaxLibraryAlerts
                /\ alerts' = Append(alerts, [render |-> 0, kind |-> "error",
                                              message |-> "clear failed"])
                /\ UNCHANGED <<tracks, selectedTrackIds>>
        /\ UNCHANGED <<created, orphaned, libraryRest>>

\* toggleTrackSelection (lines 122-132) from the checkbox of a row
ToggleTrackSelection ==
    \E trackId \in TrackIds(tracks) :
        /\ selectedTrackIds' = IF trackId \in selectedTrackIds
                               THEN selectedTrackIds \ {trackId}
                               ELSE selectedTrackIds \cup {trackId}
        /\ UNCHANGED <<tracks, pending, created, alerts, orphaned, libraryRest>>

\* toggleSelectAll (lines 134-144)
ToggleSelectAll ==
    /\ Len(tracks) # 0
    /\ selectedTrackIds' = IF Cardinality(selectedTrackIds) = Len(tracks)
                           THEN {} ELSE AllIds(tracks)
    /\ UNCHANGED <<tracks, pending, created, alerts, orphaned, libraryRest>>

LibraryNext ==
    \/ FilesAdded
    \/ AnalysisSettles
    \/ ReorderTrack
    \/ DeleteTrack
    \/ DeleteSettles
    \/ ClearLibrary
    \/ ClearSettles
    \/ ToggleTrackSelection
    \/ ToggleSelectAll

SpecLibrary == LibraryInit /\ [][LibraryNext]_vars

\* ------------------------------------------------------------- properties
\* the steps the render, its timers and its encoders take by themselves
Progress == RenderStep \/ VideoOutput \/ AudioOutput

\* C1: frames reach the video encoder one at a time in increasing index
\* order: the frame at position k (from 0) has index k and the integer
\* timestamp of k * (1000000 / fps) microseconds, and a frame is composited
\* only when every earlier frame has been composited and submitted.
C1_Order ==
    /\ \A k \in 1..Len(submitted) :
          /\ submitted[k].index = k - 1
          /\ submitted[k].timestamp * fps <= (k - 1) * 1000000
          /\ (k - 1) * 1000000 < (submitted[k].timestamp + 1) * fps
    /\ \A k \in 1..Len(composited) : composited[k] = k - 1
    /\ Cardinality(procs) <= 1
C1_Step ==
    composited' # composited =>
        /\ Len(submitted) = Len(composited)
        /\ composited' = Append(composited, Len(composited))
C2_EveryFrameSubmitted ==
    (~aborted /\ ~hasEncoderError) =>
        /\ (pc # "idle" /\ ~Settled) => ENABLED Progress
        /\ ctx = "closed" =>
              /\ Len(submitted) = totalFrames
              /\ \A k \in 1..Len(submitted) : submitted[k].index = k - 1
C2_LastFrameLost ==
    /\ ~aborted /\ ~hasEncoderError
    /\ pc = "resolved"
    /\ tracks = <<2942>>
    /\ totalFrames = 3
    /\ Len(submitted) = 2

\* C3: once cancel() has set the flag, the only frame composited or submitted
\* afterwards is the one whose iteration had passed the check at its top:
\* every processFrame call that starts later returns at that check.
C3_NoFrameAfterCancel ==
    cancelInfo # <<>> =>
        LET c == cancelInfo[1]
        IN  /\ Cardinality(c.inflight) <= 1
            /\ \A k \in 1..Len(composited) : k > c.drawn => composited[k] \in c.inflight
            /\ \A k \in 1..Len(submitted) :
                  k > c.frames => submitted[k].index \in c.inflight
            /\ \A i \in skipped :
                  /\ \A k \in 1..Len(composited) : composited[k] # i
                  /\ \A k \in 1..Len(submitted) : submitted[k].index # i
C3_Witness ==
    /\ cancelInfo # <<>>
    /\ cancelInfo[1].phase = "frames"
    /\ cancelInfo[1].inflight = {30}
    /\ Len(submitted) = cancelInfo[1].frames + 1
    /\ skipped = {31}

\* C4: after a cancel() during the frame phase the render keeps making
\* progress until it settles, and when it has settled both encoders are
\* closed, every bitmap is closed and the sticker decoder is disposed.
C4_CancelSettlesAndReleases ==
    (cancelInfo # <<>> /\ cancelInfo[1].phase = "frames") =>
        /\ ~Settled => ENABLED Progress
        /\ Settled => /\ vState = "closed"
                      /\ aState = "closed"
                      /\ bitmaps = {}
                      /\ gif # "loaded"
C4_Hung ==
    /\ cancelInfo # <<>>
    /\ cancelInfo[1].phase = "frames"
    /\ pc = "awaitRendering"
    /\ ctx = "suspended"
    /\ procs = {}
    /\ vQueue = 0
    /\ vState = "configured"
    /\ bitmaps # {}

\* C5: hasEncoderError, once set, stays set, and no frame with an index
\* greater than the frame in progress when it was set (or, between two
\* frames, the last one composited) is submitted to the video encoder.
C5_FrameAtError ==
    IF errInfo[1].inflight # {}
    THEN CHOOSE i \in errInfo[1].inflight : TRUE
    ELSE errInfo[1].drawn - 1
C5_NoLaterFrame ==
    /\ hasEncoderError <=> errInfo # <<>>
    /\ errInfo # <<>> =>
          \A k \in 1..Len(submitted) : submitted[k].index <= C5_FrameAtError
C5_ErrorFlagSticky ==
    []C5_NoLaterFrame /\ [][hasEncoderError => hasEncoderError']_vars
C5_Witness ==
    /\ errInfo # <<>>
    /\ errInfo[1].phase = "frames"
    /\ errInfo[1].frames = 31
    /\ skipped = {31}
    /\ Len(submitted) = 31

\* C6: after an encoder error during the frame phase, before the last frame,
\* the render keeps making progress until it settles, and it settles with
\* the muxer finalized.
C6_ErrorStillFinalizes ==
    (/\ errInfo # <<>>
     /\ errInfo[1].phase = "frames"
     /\ errInfo[1].drawn < totalFrames - 1) =>
        /\ ~Settled => ENABLED Progress
        /\ Settled => muxer = "finalized"
C6_Hung ==
    /\ errInfo # <<>>
    /\ errInfo[1].phase = "frames"
    /\ errInfo[1].drawn < totalFrames - 1
    /\ ~aborted
    /\ pc = "awaitRendering"
    /\ ctx = "suspended"
    /\ procs = {}
    /\ muxer = "open"
    /\ aState = "configured"

\* C7: a frame that found more than 60 frames in the video encoder's queue
\* is composited only once the queue is below 30, and the queue never holds
\* more than 61 frames.
C7_QueueBounded == vQueue <= VideoQueueLimit + 1
C7_Step ==
    \A p \in procs :
        (p.at \in {"poll", "sleep"} /\ composited' # composited) =>
            vQueue < LowWater(VideoQueueLimit)
C7_BackpressureBound == []C7_QueueBounded /\ [][C7_Step]_vars
C7_QueueOverrun ==
    /\ ~aborted /\ ~hasEncoderError
    /\ vQueue = 63
    /\ Len(submitted) = 63

\* C8: the finalization steps happen in the order video flush, video close,
\* first audio chunk, audio flush, audio close, muxer.finalize(), each at
\* most once; no video frame is submitted once the first of them has
\* happened, and an audio chunk is submitted only after the video encoder
\* was flushed and closed.
C8_Rank(step) ==
    CASE step = "vflush" -> 1
      [] step = "vclose" -> 2
      [] step = "achunk" -> 3
      [] step = "aflush" -> 4
      [] step = "aclose" -> 5
      [] step = "finalize" -> 6
C8_Ordered ==
    /\ \A a, b \in 1..Len(finLog) :
          a < b => C8_Rank(finLog[a]) < C8_Rank(finLog[b])
    /\ audioSubmitted # <<>> =>
          /\ Len(finLog) >= 3
          /\ SubSeq(finLog, 1, 3) = <<"vflush", "vclose", "achunk">>
    /\ muxer = "finalized" =>
          finLog = <<"vflush", "vclose", "achunk", "aflush", "aclose", "finalize">>
C8_Step ==
    /\ finLog # <<>> => submitted' = submitted
    /\ audioSubmitted' # audioSubmitted => submitted' = submitted
C8_FinalizationOrder == []C8_Ordered /\ [][C8_Step]_vars
C8_Witness ==
    /\ pc = "resolved"
    /\ finLog = <<"vflush", "vclose", "achunk", "aflush", "aclose", "finalize">>
    /\ Len(submitted) = 63
    /\ Len(audioSubmitted) = 5

\* C9: a call with an empty track list rejects with nothing constructed (no
\* OfflineAudioContext, muxer, VideoEncoder or AudioEncoder) and without a
\* call of onProgress.
C9_EmptyListRejected ==
    (pc # "idle" /\ Len(tracks) = 0) =>
        /\ pc = "rejected"
        /\ outcome \in {"Muxer not loaded", "No tracks to render"}
        /\ ctx = "none"
        /\ muxer = "none"
        /\ vState = "none"
        /\ aState = "none"
        /\ progress = <<>>
C9_Witness ==
    /\ pc = "rejected"
    /\ tracks = <<>>
    /\ outcome = "No tracks to render"

\* C10: when every track fails to decode or decodes to an empty buffer, the
\* render goes on to reject with a fatal error, never resolves, and no
\* OfflineAudioContext, muxer or encoder is constructed.
C10_AllTracksFail ==
    /\ Len(tracks) > 0
    /\ \A k \in 1..Len(tracks) : tracks[k] \in {NoBuffer, 0}
C10_NoValidAudioRejected ==
    (pc # "idle" /\ C10_AllTracksFail) =>
        /\ pc # "resolved"
        /\ ~Settled => ENABLED Progress
        /\ pc = "rejected" =>
              outcome \in {"Muxer not loaded", "Render Aborted", "No valid audio data"}
        /\ ctx = "none"
        /\ muxer = "none"
        /\ vState = "none"
        /\ aState = "none"
C10_Witness ==
    /\ pc = "rejected"
    /\ tracks = <<NoBuffer, 0>>
    /\ outcome = "No valid audio data"
    /\ decodedBuffers = <<NoBuffer, 0>>

\* C11: a track that cannot be fetched or decoded is dropped: when some
\* track decodes to audio the render does not reject because of the decode
\* phase, and once the mix is set up it holds exactly the decoded tracks,
\* in list order.
C11_DecodeFailures ==
    {"Track file not found", "Decode error", "No valid audio data"}
C11_FailedTracksDropped ==
    (\E k \in 1..Len(tracks) : tracks[k] # NoBuffer /\ tracks[k] > 0) =>
        /\ pc = "rejected" => outcome \notin C11_DecodeFailures
        /\ pc \notin {"idle", "decoding", "decoded", "rejected"} =>
              validBuffers = FilterValid(tracks, 1)
C11_TrackFailureRejects ==
    /\ pc = "rejected"
    /\ tracks = <<4410, NoBuffer>>
    /\ decodedBuffers = <<4410>>
    /\ outcome = "Decode error"

\* C12: the duration ceiling is inclusive.  After the pre-flight checks a
\* total of more than 3600 seconds has rejected the render with the
\* duration error before the audio context, the muxer or an encoder exists;
\* a total of at most 3600 seconds is never rejected for its duration.
C12_Total == SumSeq(FilterValid(decodedBuffers, 1))
C12_CeilingInclusive ==
    pc \notin {"idle", "decoding", "decoded"} =>
        /\ C12_Total > MaxTotalSeconds * sampleRate =>
              /\ pc = "rejected"
              /\ outcome = "Total duration too long"
              /\ ctx = "none" /\ muxer = "none"
              /\ vState = "none" /\ aState = "none"
        /\ C12_Total <= MaxTotalSeconds * sampleRate =>
              outcome # "Total duration too long"
C12_ExactlyOneHourAccepted ==
    /\ pc = "loadAssets"
    /\ Len(validBuffers) = 2
    /\ totalDuration = MaxTotalSeconds * sampleRate
    /\ ctx = "created"

\* C13: the `current` values passed to onProgress never decrease over one
\* renderPlaylist invocation, from the decode phase to finalization.
C13_ProgressMonotone ==
    \A a, b \in 1..Len(progress) : a < b => progress[a][1] <= progress[b][1]
C13_ProgressRestarts ==
    /\ pc = "awaitRendering"
    /\ Len(progress) >= 2
    /\ progress[Len(progress) - 1] = <<Len(tracks), Len(tracks)>>
    /\ progress[Len(progress)] = <<0, totalFrames>>

\* C14: renderPlaylist resolves with null exactly when a writable stream was
\* supplied; without one it resolves with a url only for a muxed buffer of
\* non-zero length (a zero-length buffer rejects).
C14_ResultMatchesMode ==
    pc = "resolved" =>
        /\ outcome = "null" <=> writableStream
        /\ ~writableStream => outcome = "url"
C14_EmptyFileResolved ==
    /\ pc = "resolved"
    /\ ~writableStream
    /\ muxer = "finalized"
    /\ outcome = "url of zero bytes"

\* C15: however renderPlaylist ends after asset loading (it resolves, it
\* rejects, or a cancel leaves it with no step to take), every loaded bitmap
\* has been closed and the animated-sticker decoder disposed.
C15_Ended == Settled \/ (aborted /\ ~ENABLED Progress)
C15_AssetsReleased ==
    C15_Ended => (bitmaps = {} /\ gif # "loaded")
C15_RejectedHoldingBitmaps ==
    /\ pc = "rejected"
    /\ outcome = "Finalize failed"
    /\ ~aborted
    /\ vState = "closed" /\ aState = "closed"
    /\ "bg" \in bitmaps

\* C16: when renderPlaylist rejects, every encoder that was constructed has
\* been closed (the claim adds: and the writable file stream closed or
\* aborted), also for a failure of the fallback video configure or of
\* audioEncoder.configure.
C16_RejectionReleasesEncoders ==
    pc = "rejected" =>
        /\ vState \in {"none", "closed"}
        /\ aState \in {"none", "closed"}
C16_RejectedWithOpenEncoders ==
    /\ pc = "rejected"
    /\ outcome = "Audio configure failed"
    /\ writableStream
    /\ muxer = "open"
    /\ vState = "configured"
    /\ aState = "unconfigured"

\* C17: a cancellation never reaches the user through the error alert of
\* startPlaylistExport's catch, the one that reports a fatal failure.
C17_CancelNotAnErrorAlert ==
    \A a \in 1..Len(alerts) :
        alerts[a].kind = "error" => alerts[a].message # "Render Aborted"
C17_CancelAlertedAsError ==
    /\ renders # <<>>
    /\ renders[1].signal
    /\ renders[1].stage = "rejected"
    /\ renders[1].outcome = "Render Aborted"
    /\ alerts = <<[render |-> 1, kind |-> "error", message |-> "Render Aborted"]>>

\* C18: under every sequence of export, confirm and cancel clicks at most
\* one renderPlaylist invocation is unsettled at any time.
C18_Unsettled ==
    {k \in 1..Len(renders) : renders[k].stage \notin {"resolved", "rejected"}}
C18_AtMostOneRender == Cardinality(C18_Unsettled) <= 1
C18_TwoRendersAlive ==
    /\ Len(renders) = 2
    /\ renders[1].signal
    /\ renders[1].stage = "stalled"
    /\ renders[2].stage = "decoding"
    /\ isExporting

\* C19: an overlay asset that fails to load never rejects the render: asset
\* loading always goes on to the frame phase with exactly the loadable
\* assets held, and every frame is composited without the failed overlays
\* and with the others.
C19_Loadable ==
    (IF settings.backgroundImage = "ok" THEN {"bg"} ELSE {})
    \cup (IF settings.logoImage = "ok" THEN {"logo"} ELSE {})
    \cup (IF settings.stickerImage \in {"gif", "static"} THEN {"sticker"} ELSE {})
C19_FramesSkipFailed ==
    \A k \in 1..Len(submitted) : submitted[k].overlays = C19_Loadable
C19_LoadStep ==
    (pc = "loadAssets" /\ pc' # pc) =>
        /\ pc' = "ready"
        /\ DrawnOverlays(bitmaps', gif') = C19_Loadable
C19_AssetFailureNotFatal == []C19_FramesSkipFailed /\ [][C19_LoadStep]_vars
C19_RenderedWithoutFailedAsset ==
    /\ pc = "resolved"
    /\ settings = [backgroundImage |-> "bad", logoImage |-> "ok",
                   stickerImage |-> "gif"]
    /\ Len(submitted) = 2
    /\ submitted[2].overlays = {"logo", "sticker"}

\* C20: when videoEncoder.encode throws for a frame (the frame was drawn
\* but is not among the submitted ones), the encoder-error flag is set and
\* no frame drawn after it is submitted.
C20_Dropped(k) ==
    \A j \in 1..Len(submitted) : submitted[j].index # composited[k]
C20_ThrowSetsFlag ==
    \A k \in 1..Len(composited) :
        C20_Dropped(k) =>
            /\ hasEncoderError
            /\ \A m \in 1..Len(composited) : m > k => C20_Dropped(m)
C20_SubmittedAfterThrow ==
    /\ ~hasEncoderError
    /\ vState = "configured"
    /\ composited = <<0, 1>>
    /\ Len(submitted) = 1
    /\ submitted[1].index = 1

\* C21: once the cancellation flag is set or an encoder error has been
\* reported, a frame waiting in waitForQueue leaves the wait, even if the
\* encoder queue never drains below the low-water mark.
C21_Waiting == \E p \in procs : p.at = "poll"
C21_WaitEnds ==
    (C21_Waiting /\ ShouldStop(aborted, hasEncoderError)) ~> ~C21_Waiting
C21_PollsForever ==
    /\ C21_Waiting
    /\ aborted
    /\ ~hasEncoderError
    /\ vState = "configured"
    /\ vQueue > VideoQueueLimit
    /\ ~ENABLED <<RenderStep>>_vars

\* C22: when an encoder error was reported during the frame phase, no
\* flush is awaited on the failed pipeline once the frame phase has ended,
\* and the render settles with the encoder closed and the muxer finalized.
C22_ErrorInFramePhase == errInfo # <<>> /\ errInfo[1].phase = "frames"
C22_FlushSkippedAndFinalized ==
    C22_ErrorInFramePhase =>
        /\ pc # "flushVideo"
        /\ Settled => (vState = "closed" /\ muxer = "finalized")
C22_FlushOnFailedEncoder ==
    /\ C22_ErrorInFramePhase
    /\ hasEncoderError
    /\ pc = "flushVideo"
    /\ vState = "closed"
    /\ ctx = "closed"
    /\ muxer = "open"

\* C23: the decoded tracks are scheduled back to back: the k-th one starts
\* where the ones before it end, on the mixdown connection and on the
\* analyser connection alike, and the timeline is as long as their sum.
C23_EndOf(k) == SumSeq(SubSeq(validBuffers, 1, k))
C24_ChunksPartition ==
    errInfo = <<>> =>
        /\ \A k \in 1..Len(audioSubmitted) :
              LET c == audioSubmitted[k]
              IN  /\ c.start = (IF k = 1 THEN 0
                                ELSE audioSubmitted[k - 1].start
                                     + audioSubmitted[k - 1].frames)
                  /\ c.frames > 0
                  /\ 2 * c.frames <= sampleRate
                  /\ c.start + c.frames <= totalDuration
                  /\ c.timestamp * 441 <= c.start * 10000
                  /\ c.start * 10000 < (c.timestamp + 1) * 441
                  /\ k > 1 => audioSubmitted[k - 1].timestamp < c.timestamp
        /\ pc \in {"flushAudio", "resolved"} =>
              /\ audioSubmitted # <<>>
              /\ LET last == audioSubmitted[Len(audioSubmitted)]
                 IN  last.start + last.frames = totalDuration
C24_FiveChunks ==
    /\ pc = "resolved"
    /\ errInfo = <<>>
    /\ totalDuration = 92000
    /\ Len(audioSubmitted) = 5
    /\ audioSubmitted[5] = [start |-> 88200, frames |-> 3800, timestamp |-> 2000000]

\* C28: during offline rendering every composited frame advances the effect
\* engine exactly once, with the timestep 1/fps, immediately before that
\* frame's single effect draw, whatever the backpressure wait was; the
\* engine is called at no other time, and a frame is submitted only in the
\* step that composited it.
C28_Step ==
    IF composited' = composited
    THEN effectLog' = effectLog /\ submitted' = submitted
    ELSE LET i == composited'[Len(composited')]
         IN  /\ composited' = Append(composited, i)
             /\ effectLog' = effectLog \o
                    <<[call |-> "update", frame |-> i, dt |-> <<1, fps>>],
                      [call |-> "draw", frame |-> i]>>
             /\ submitted' # submitted =>
                    submitted' = Append(submitted, submitted'[Len(submitted')])
                    /\ submitted'[Len(submitted')].index = i
C28_OneUpdatePerFrame ==
    (effectLog = <<>> /\ composited = <<>>) /\ [][C28_Step]_vars
C28_AfterBackpressure ==
    /\ Len(submitted) = 63
    /\ vQueue > 0
    /\ effectLog[125] = [call |-> "update", frame |-> 62, dt |-> <<1, 30>>]
    /\ effectLog[126] = [call |-> "draw", frame |-> 62]

\* C29: a submitted frame is a keyframe exactly when its index is a multiple
\* of 60; frame 0 is a keyframe.
C29_KeyframeEvery60 ==
    /\ \A k \in 1..Len(submitted) :
          submitted[k].keyFrame <=> (submitted[k].index % 60 = 0)
    /\ (submitted # <<>> /\ submitted[1].index = 0) => submitted[1].keyFrame
C29_SecondKeyframe ==
    /\ Len(submitted) >= 62
    /\ submitted[1].keyFrame
    /\ ~submitted[60].keyFrame
    /\ submitted[61].index = 60 /\ submitted[61].keyFrame
    /\ ~submitted[62].keyFrame

\* C30: configure is called with the primary profile and, only after that
\* threw, once with the fallback profile; when the fallback throws too,
\* renderPlaylist is rejected, no frame was composited or submitted, the
\* effect engine was not touched and the audio context never ran.
C30_FallbackOnceThenFatal ==
    /\ configureCalls \in {<<>>, <<"avc1.4d002a">>, <<"avc1.4d002a", "avc1.42002a">>}
    /\ (vState = "configured" /\ pc = "loadAssets") => configureCalls # <<>>
    /\ vState = "unconfigured" =>
          /\ configureCalls = <<"avc1.4d002a", "avc1.42002a">>
          /\ pc = "rejected"
          /\ composited = <<>> /\ submitted = <<>> /\ effectLog = <<>>
          /\ procs = {} /\ suspends = {}
          /\ ctx = "created"
          /\ audioSubmitted = <<>>
C30_BothConfiguresThrow ==
    /\ vState = "unconfigured"
    /\ configureCalls = <<"avc1.4d002a", "avc1.42002a">>
    /\ pc = "rejected"
    /\ totalDuration = 92000
    /\ aborted

\* C25: within every composited frame the drawing steps come in the order
\* (1) clear to black or background image with its dark overlay, (2) shake
\* and pulse transforms, (3) spectrum, (4) logo, (5) sticker, (6) effect
\* engine draw, (7) glitch, and the glitch, when it runs, is the last thing
\* drawn before the canvas is wrapped into a VideoFrame.
C25_DrawingOps ==
    {"clear", "background", "overlay", "shake", "pulse", "spectrum",
     "spectrumFlipped", "logo", "sticker", "effects", "glitch"}
C25_InOrder(rank) ==
    \A a, b \in 1..Len(canvasOps) :
        (a < b /\ canvasOps[a] \in C25_DrawingOps /\ canvasOps[b] \in C25_DrawingOps)
            => rank[canvasOps[a]] <= rank[canvasOps[b]]
C25_GlitchLast ==
    \A a \in 1..Len(canvasOps) :
        canvasOps[a] = "glitch" =>
            /\ \A b \in (a + 1)..Len(canvasOps) : canvasOps[b] \notin C25_DrawingOps
            /\ canvasOps[Len(canvasOps)] = "wrap"
C25_AllStepsPresent ==
    canvasOps # <<>> =>
        \A op \in {"clear", "spectrum", "effects"} :
            Cardinality({a \in 1..Len(canvasOps) : canvasOps[a] = op}) = 1
C25_ClaimedRank ==
    [clear |-> 1, background |-> 1, overlay |-> 1, shake |-> 2, pulse |-> 2,
     spectrum |-> 3, spectrumFlipped |-> 3, logo |-> 4, sticker |-> 5,
     effects |-> 6, glitch |-> 7]
C25_OrderAsClaimed ==
    C25_InOrder(C25_ClaimedRank) /\ C25_GlitchLast /\ C25_AllStepsPresent
\* C25 as amended: the order is clear to black, shake and pulse transforms,
\* background image with its dark overlay, spectrum, logo, sticker, effect
\* engine draw, glitch; the glitch is the last thing drawn before the wrap.
C25_CodeRank ==
    [clear |-> 1, shake |-> 2, pulse |-> 2, background |-> 3, overlay |-> 3,
     spectrum |-> 4, spectrumFlipped |-> 4, logo |-> 5, sticker |-> 6,
     effects |-> 7, glitch |-> 8]
C25_TransformsBeforeBackground ==
    C25_InOrder(C25_CodeRank) /\ C25_GlitchLast /\ C25_AllStepsPresent
C25_EveryStepDrawn ==
    /\ Len(composited) = 2
    /\ analysis.isBeat
    /\ canvasOps = <<"clear", "save", "shake", "pulse", "background", "overlay",
                     "spectrum", "logo", "sticker", "effects", "glitch", "restore",
                     "wrap">>

\* C26: for every mode the bytes read and the energy formula agree: a frame
\* that read time-domain data has energy 2 * mean(|sample - 128|) over every
\* 4th sample, a frame that read frequency data has the mean of the 5 lowest
\* bins, the three waveform modes are the ones reading time-domain data, and
\* the frame is a beat exactly when its energy is above 200.
C26_EveryFourth == {k \in 0..(frequencyBinCount - 1) : k % 4 = 0}
C26_LowestBins ==
    DataAt(analysis.data, 0) + DataAt(analysis.data, 1) + DataAt(analysis.data, 2)
        + DataAt(analysis.data, 3) + DataAt(analysis.data, 4)
C26_DomainMatchesEnergy ==
    analysis # NoAnalysis =>
        /\ analysis.domain \in {"time", "frequency"}
        /\ analysis.domain = "time" <=> visualizerMode \in {"WAVE", "FLUID", "JELLY_WAVE"}
        /\ analysis.domain = "time" =>
              analysis.energy[1] * Cardinality(C26_EveryFourth) =
                  2 * SumDeviation(analysis.data, 0, 255, 4) * analysis.energy[2]
        /\ analysis.domain = "frequency" =>
              analysis.energy[1] * 5 = C26_LowestBins * analysis.energy[2]
        /\ analysis.isBeat <=> analysis.energy[1] > 200 * analysis.energy[2]
C26_WaveformAtThreshold ==
    /\ visualizerMode = "JELLY_WAVE"
    /\ analysis = [domain |-> "time", data |-> "flat228",
                   energy |-> <<204800, 1024>>, isBeat |-> FALSE]
    /\ Len(composited) = 2

\* C27: a live preview frame rendered while isPlaying is false has energy 0
\* and no beat, does not call the effect engine's update, calls its draw
\* once, and draws neither shake nor glitch.
C27_PausedFrame ==
    (composited' # composited /\ ~isPlaying) =>
        /\ analysis'.energy[1] = 0
        /\ ~analysis'.isBeat
        /\ effectLog' = Append(effectLog, [call |-> "draw", frame |-> Len(composited)])
        /\ \A k \in 1..Len(canvasOps') : canvasOps'[k] \notin {"shake", "glitch"}
        /\ Cardinality({k \in 1..Len(canvasOps') : canvasOps'[k] = "effects"}) = 1
C27_FrozenWhilePaused == [][C27_PausedFrame]_vars
C27_PausedAfterLoudFrame ==
    /\ ~isPlaying
    /\ effects = {"shake", "pulse", "glitch"}
    /\ effectLog = <<[call |-> "update", frame |-> 0, dt |-> "default"],
                     [call |-> "draw", frame |-> 0],
                     [call |-> "draw", frame |-> 1]>>
    /\ analysis.data = "flat255" /\ analysis.energy = <<0, 1>> /\ ~analysis.isBeat
    /\ "glitch" \notin {canvasOps[k] : k \in 1..Len(canvasOps)}

\* C31: an invocation's state is not changed by another invocation: an
\* invocation whose encoder reported an error still sees the error flag set
\* (no later invocation cleared it), an invocation's frame clock stops only
\* on its own cancellation or its own encoder error, and every invocation
\* that was in flight at a cancel() has its signal aborted.
C31_InvocationsIsolated ==
    /\ \A k \in 1..Len(renders) :
          /\ renders[k].ownError => hasEncoderError
          /\ renders[k].stage = "stalled" => (renders[k].signal \/ renders[k].ownError)
    /\ \A c \in 1..Len(cancelInfo) :
          \A k \in cancelInfo[c].inFlight : renders[k].signal
C31_TwoInFlight ==
    /\ Len(renders) = 2
    /\ renders[1].stage = "frames" /\ renders[1].frame = 1
    /\ renders[2].stage = "frames"
    /\ cancelInfo = <<>>

\* C32: with batches of 4 decoded concurrently, a decoded buffer is stored at
\* its track's index whatever the completion order, and the tracks on the
\* timeline are the decoded tracks in input order, scheduled one after the
\* other.
C32_DecodedOf(k) == {j \in 1..k : tracks[j] # NoBuffer}
C32_TimelineInInputOrder ==
    /\ \A k \in 1..Len(decodedBuffers) :
          decodedBuffers[k] = (IF k \in settled THEN tracks[k] ELSE NoBuffer)
    /\ pc \in {"loadAssets", "rejected"} =>
          /\ Len(validBuffers) = Cardinality(C32_DecodedOf(Len(tracks)))
          /\ \A k \in C32_DecodedOf(Len(tracks)) :
                validBuffers[Cardinality(C32_DecodedOf(k))] = tracks[k]
          /\ \A a \in 1..Len(mixStarts) :
                \A b \in 1..Len(mixStarts) :
                    a < b => mixStarts[a] + validBuffers[a] <= mixStarts[b]
C32_LaterTrackDecodedFirst ==
    /\ tracks = <<600, NoBuffer, 800, 900, 1000, 1100>>
    /\ pc = "loadAssets"
    /\ validBuffers = <<600, 800, 900, 1000, 1100>>
    /\ mixStarts = <<0, 600, 1400, 2300, 3300>>

\* C33: in direct-write mode, when useExporter shows the 'file saved' alert
\* of an export, the writable stream handed to that renderPlaylist invocation
\* has been closed.
C33_StreamClosedWhenSaved ==
    \A a \in 1..Len(alerts) :
        alerts[a].kind = "saved" => ~renders[alerts[a].render].streamOpen
C33_SavedAlertShown ==
    /\ Len(renders) = 1
    /\ renders[1].stream /\ renders[1].stage = "resolved" /\ renders[1].outcome = "null"
    /\ alerts = <<[render |-> 1, kind |-> "saved", message |-> "none"]>>
    /\ ~isExporting

\* C34: no encoded video or audio chunk is appended to the muxer after
\* muxer.finalize() has been called, and finalize is called at most once per
\* invocation, also on the paths where a flush threw or the encoder-error flag
\* was set.
C34_Finalizes == Cardinality({k \in 1..Len(finLog) : finLog[k] = "finalize"})
C34_Step ==
    muxer = "finalized" =>
        /\ muxVideo' = muxVideo
        /\ muxAudio' = muxAudio
        /\ muxer' = "finalized"
        /\ C34_Finalizes' = C34_Finalizes
C34_FinalizeIsLast ==
    /\ [](C34_Finalizes = (IF muxer = "finalized" THEN 1 ELSE 0))
    /\ [][C34_Step]_vars
C34_FinalizedWithChunks ==
    /\ pc = "resolved"
    /\ muxer = "finalized"
    /\ muxVideo = Len(submitted) /\ muxVideo > 0
    /\ muxAudio = Len(audioSubmitted) /\ muxAudio > 0

\* C35: in every reachable state of useExporter, isExporting is true whenever
\* a renderPlaylist invocation started by startPlaylistExport has not yet
\* settled, including after cancelExport has been called.
C35_Unsettled == {k \in 1..Len(renders) : renders[k].stage \notin {"resolved", "rejected"}}
C35_ExportingWhileUnsettled == C35_Unsettled # {} => isExporting
C35_CancelledStillDecoding ==
    /\ Len(renders) = 1
    /\ renders[1].stage = "decoding" /\ renders[1].signal
    /\ ~isExporting
    /\ alerts = <<>>

\* C36: the bass energy of a frame is within 0..255 whatever the analyser
\* holds, in the frequency domain and in the time domain, so that the pulse
\* zoom 1 + (energy / 255) * 0.1 never exceeds 1.1.
C36_ZoomTimes2550 == <<2550 * analysis.energy[2] + analysis.energy[1], analysis.energy[2]>>
C36_EnergyInByteRange ==
    analysis # NoAnalysis =>
        /\ 0 <= analysis.energy[1]
        /\ analysis.energy[1] <= 255 * analysis.energy[2]
        /\ "pulse" \in effects => C36_ZoomTimes2550[1] <= 2805 * C36_ZoomTimes2550[2]
C36_WaveformAtFullDeviation ==
    /\ visualizerMode = "WAVE"
    /\ "pulse" \in effects
    /\ analysis = [domain |-> "time", data |-> "fourth0",
                   energy |-> <<262144, 1024>>, isBeat |-> TRUE]
    /\ <<"pulse">> = SelectSeq(canvasOps, LAMBDA op : op = "pulse")

\* the ids of a track list, in list order
IdOrder(list) == [k \in 1..Len(list) |-> list[k].id]

\* C37: for the track list of any reachable state and any two ids,
\* handleReorderTrack returns a permutation of the list with the source
\* immediately before the target and the other tracks in their old relative
\* order, and returns the list unchanged when either id is absent or the
\* source is the target.
C37_MovedBefore(prev, result, sourceTrackId, targetTrackId) ==
    /\ Len(result) = Len(prev)
    /\ \A t \in TrackIds(prev) :
          /\ t \in TrackIds(result)
          /\ result[findIndex(result, t)] = prev[findIndex(prev, t)]
    /\ findIndex(result, sourceTrackId) + 1 = findIndex(result, targetTrackId)
    /\ WithoutTrack(result, sourceTrackId) = WithoutTrack(prev, sourceTrackId)
C37_ReorderMovesBeforeTarget ==
    \A sourceTrackId, targetTrackId \in LibraryIds :
        LET result == handleReorderTrack(tracks, sourceTrackId, targetTrackId)
        IN  IF \/ sourceTrackId \notin TrackIds(tracks)
               \/ targetTrackId \notin TrackIds(tracks)
               \/ sourceTrackId = targetTrackId
            THEN result = tracks
            ELSE C37_MovedBefore(tracks, result, sourceTrackId, targetTrackId)
C37_FirstMovedBeforeLast ==
    /\ IdOrder(tracks) = <<2, 1, 3>>
    /\ tracks[2].mood = "mood"
    /\ pending = {}

\* C38: after any sequence of handleFilesAdded, toggleTrackSelection of a
\* listed track, toggleSelectAll, handleDeleteTrack and handleClearLibrary,
\* with their storage calls settling in any order, selectedTrackIds is a
\* subset of the ids of the current tracks; and when the storage deletion of
\* handleDeleteTrack fails, neither the list nor the selection changes.
C38_DeleteFailed ==
    /\ Len(alerts') = Len(alerts) + 1
    /\ alerts'[Len(alerts')].message = "delete failed"
C38_Step == C38_DeleteFailed => (tracks' = tracks /\ selectedTrackIds' = selectedTrackIds)
C38_SelectionWithinTracks ==
    /\ [](selectedTrackIds \subseteq TrackIds(tracks))
    /\ [][C38_Step]_vars
C38_SelectedTrackDeleted ==
    /\ created = 3
    /\ IdOrder(tracks) = <<1, 3>>
    /\ selectedTrackIds = {1, 3}
    /\ pending = {}
    /\ alerts = <<[render |-> 0, kind |-> "error", message |-> "delete failed"]>>

\* C39: an analysis result that arrives after its track was deleted, or after
\* the library was cleared, never adds the track again and never changes
\* another track; a result that finds its track changes that track only.
C39_Settling == {p \in pending \ pending' : p.op = "analyze"}
C39_Step ==
    \A p \in C39_Settling :
        /\ IdOrder(tracks') = IdOrder(tracks)
        /\ \A k \in 1..Len(tracks) : tracks[k].id # p.id => tracks'[k] = tracks[k]
        /\ p.id \notin TrackIds(tracks) => tracks' = tracks
C39_LateResultDropped == [](orphaned \cap TrackIds(tracks) = {}) /\ [][C39_Step]_vars
C39_ResultAfterDelete ==
    /\ orphaned = {1}
    /\ IdOrder(tracks) = <<2>>
    /\ tracks[1].mood = "none"
    /\ [op |-> "analyze", id |-> 2] \in pending
====
